---- MODULE Spec2Model ----
(***************************************************************************)
(* Streaming audio assembly of the Native Speech Generation add-on:        *)
(* parse_audio_mime_type, convert_to_wav, merge_wav_files and              *)
(* NativeSpeechDialog._stream_and_save_audio, with the dialog's on_close   *)
(* running concurrently on the UI thread.                                  *)
(*                                                                         *)
(* Text (str) is a sequence of one-character strings, bytes are sequences  *)
(* of 0..255, a disk is a function from the paths that exist to the bytes  *)
(* of each file.                                                           *)
(***************************************************************************)
EXTENDS Integers, Sequences, FiniteSets, TLC

\* Bound of the model: the number of chunks the producer's stream yields.
MaxChunks == 3

----------------------------------------------------------------------------
\* str helpers, as Python's str methods compute them.

UpperChars == <<"A","B","C","D","E","F","G","H","I","J","K","L","M","N","O","P","Q","R","S","T","U","V","W","X","Y","Z">>

LowerChars == <<"a","b","c","d","e","f","g","h","i","j","k","l","m","n","o","p","q","r","s","t","u","v","w","x","y","z">>

Digits == <<"0","1","2","3","4","5","6","7","8","9">>

IndexIn(c, s) == IF \E i \in 1..Len(s) : s[i] = c
                 THEN CHOOSE i \in 1..Len(s) : s[i] = c
                 ELSE 0

LowerChar(c) == IF IndexIn(c, UpperChars) = 0 THEN c ELSE LowerChars[IndexIn(c, UpperChars)]

\* s.lower()
lower(s) == [i \in 1..Len(s) |-> LowerChar(s[i])]

\* s.startswith(prefix)
startswith(s, prefix) ==
    /\ Len(prefix) <= Len(s)
    /\ SubSeq(s, 1, Len(prefix)) = prefix

\* s.endswith(suffix)
endswith(s, suffix) ==
    /\ Len(suffix) <= Len(s)
    /\ SubSeq(s, Len(s) - Len(suffix) + 1, Len(s)) = suffix

\* sub in s
contains(s, sub) ==
    \E i \in 1..(Len(s) - Len(sub) + 1) : SubSeq(s, i, i + Len(sub) - 1) = sub

IsSpace(c) == c \in {" ", "\t"}

\* s.strip()
RECURSIVE lstrip(_)
lstrip(s) == IF s # <<>> /\ IsSpace(Head(s)) THEN lstrip(Tail(s)) ELSE s

RECURSIVE rstrip(_)
rstrip(s) == IF s # <<>> /\ IsSpace(s[Len(s)]) THEN rstrip(SubSeq(s, 1, Len(s) - 1)) ELSE s

strip(s) == rstrip(lstrip(s))

\* s.split(sep) for a one-character separator: always at least one part.
RECURSIVE split(_, _)
split(s, sep) ==
    IF IndexIn(sep, s) = 0
    THEN <<s>>
    ELSE <<SubSeq(s, 1, IndexIn(sep, s) - 1)>> \o split(SubSeq(s, IndexIn(sep, s) + 1, Len(s)), sep)

\* s.split(sep, 1): one part when sep is absent, else the text before and after
\* its first occurrence.
split1(s, sep) ==
    IF IndexIn(sep, s) = 0
    THEN <<s>>
    ELSE <<SubSeq(s, 1, IndexIn(sep, s) - 1), SubSeq(s, IndexIn(sep, s) + 1, Len(s))>>

\* str(n) for n >= 0
RECURSIVE str(_)
str(n) == IF n < 10 THEN <<Digits[n + 1]>> ELSE str(n \div 10) \o <<Digits[(n % 10) + 1]>>

RECURSIVE DigitsValue(_, _)
DigitsValue(s, acc) ==
    IF s = <<>> THEN acc ELSE DigitsValue(Tail(s), acc * 10 + (IndexIn(Head(s), Digits) - 1))

\* The digits of an int literal with its underscores removed.
IsDigit(c) == IndexIn(c, Digits) # 0

\* Whether u, a literal without its sign, is decimal digits with single
\* underscores between them.
IsIntLiteral(u) ==
    /\ u # <<>>
    /\ \A i \in 1..Len(u) : IsDigit(u[i]) \/ u[i] = "_"
    /\ IsDigit(u[1]) /\ IsDigit(u[Len(u)])
    /\ \A i \in 1..(Len(u) - 1) : ~(u[i] = "_" /\ u[i + 1] = "_")

IntUnsigned(u, negative) ==
    IF IsIntLiteral(u)
    THEN [ok |-> TRUE,
          value |-> IF negative
                    THEN 0 - DigitsValue(SelectSeq(u, IsDigit), 0)
                    ELSE DigitsValue(SelectSeq(u, IsDigit), 0)]
    ELSE [ok |-> FALSE, value |-> 0]

IntStripped(t) ==
    IF t # <<>> /\ Head(t) \in {"-", "+"}
    THEN IntUnsigned(Tail(t), Head(t) = "-")
    ELSE IntUnsigned(t, FALSE)

\* int(s): surrounding whitespace and one sign are accepted, then decimal digits
\* with single underscores between them; anything else raises ValueError
\* (ok = FALSE).
int(s) == IntStripped(strip(s))

----------------------------------------------------------------------------
\* mimetypes.guess_extension and the content-type parsing.

MimeWav == <<"a","u","d","i","o","/","x","-","w","a","v">>

MimeMpeg == <<"a","u","d","i","o","/","m","p","e","g">>

MimeFlac == <<"a","u","d","i","o","/","f","l","a","c">>

MimeOgg == <<"a","u","d","i","o","/","o","g","g">>

MimeBasic == <<"a","u","d","i","o","/","b","a","s","i","c">>

MimeL16 == <<"a","u","d","i","o","/","L","1","6",";","r","a","t","e","=","2","4","0","0","0">>

MimeL16Rate48k == <<"a","u","d","i","o","/","L","1","6",";","r","a","t","e","=","4","8","0","0","0">>

NoMime == <<>>

ExtWav == <<".","w","a","v">>

ExtMp3 == <<".","m","p","3">>

ExtFlac == <<".","f","l","a","c">>

ExtOga == <<".","o","g","a">>

ExtAu == <<".","a","u">>

\* mimetypes.guess_extension(type): the type is lower-cased and looked up whole
\* (parameters included) in the table of known types; "" stands for None.
guess_extension(type) ==
    LET t == lower(type)
    IN  CASE t = MimeWav -> ExtWav
          [] t = MimeMpeg -> ExtMp3
          [] t = MimeFlac -> ExtFlac
          [] t = MimeOgg -> ExtOga
          [] t = MimeBasic -> ExtAu
          [] OTHER -> <<>>

RecognizedExts == {<<".","w","a","v">>, <<".","m","p","3">>, <<".","o","g","g">>, <<".","f","l","a","c">>}

\* Mutant: a value int() rejects clears the rate.
SetRate_clearOnError(acc, parsed) == [acc EXCEPT !.rate = IF parsed.ok THEN parsed.value ELSE 0]

\* rate = int(...) under contextlib.suppress(Exception)
SetRate(acc, parsed) == IF parsed.ok THEN [acc EXCEPT !.rate = parsed.value] ELSE acc

\* bits_per_sample = int(...) under contextlib.suppress(Exception)
SetBits(acc, parsed) == IF parsed.ok THEN [acc EXCEPT !.bits_per_sample = parsed.value] ELSE acc

\* if p.lower().startswith("rate="): rate = int(p.split("=", 1)[1])
ParseRate(acc, p) ==
    IF startswith(lower(p), <<"r","a","t","e","=">>) THEN SetRate(acc, int(split1(p, "=")[2])) ELSE acc

\* if "L" in p and p.lower().startswith("audio/l"): bits_per_sample = int(p.split("L", 1)[1])
ParseBits(acc, p) ==
    IF IndexIn("L", p) # 0 /\ startswith(lower(p), <<"a","u","d","i","o","/","l">>)
    THEN SetBits(acc, int(split1(p, "L")[2]))
    ELSE acc

\* One step of the loop over the ";"-separated parts in parse_audio_mime_type.
ParsePart(acc, p) == ParseBits(ParseRate(acc, p), p)

RECURSIVE ParseParts(_, _)
ParseParts(acc, parts) ==
    IF parts = <<>> THEN acc ELSE ParseParts(ParsePart(acc, strip(Head(parts))), Tail(parts))

parse_audio_mime_type(mime_type) ==
    IF mime_type = <<>>
    THEN [bits_per_sample |-> 16, rate |-> 24000]
    ELSE ParseParts([bits_per_sample |-> 16, rate |-> 24000], split(mime_type, ";"))

----------------------------------------------------------------------------
\* struct.pack("<4sI4s4sIHHIIHH4sI", ...) and the wave module over bytes.

U16(v) == <<v % 256, (v \div 256) % 256>>

U32(v) == <<v % 256, (v \div 256) % 256, (v \div 65536) % 256, (v \div 16777216) % 256>>

\* struct.pack raises struct.error for a value outside the field's range.
FitsU16(v) == v >= 0 /\ v <= 65535

FitsU32(v) == v >= 0 /\ v \div 65536 <= 65535

RIFF == <<82, 73, 70, 70>>

WAVE == <<87, 65, 86, 69>>

FmtTag == <<102, 109, 116, 32>>

DataTag == <<100, 97, 116, 97>>

\* The 44-byte header both convert_to_wav and wave.Wave_write lay out.
WavHeader(num_channels, sample_rate, byte_rate, block_align, bits_per_sample, data_size) ==
    RIFF \o U32(36 + data_size) \o WAVE \o FmtTag \o U32(16)
         \o U16(1) \o U16(num_channels) \o U32(sample_rate) \o U32(byte_rate)
         \o U16(block_align) \o U16(bits_per_sample)
         \o DataTag \o U32(data_size)

\* header = struct.pack(...); return header + audio_data.  struct.pack raises
\* (ok = FALSE) when a field does not fit.
PackWav(audio_data, num_channels, sample_rate, byte_rate, block_align, bits_per_sample, chunk_size, data_size) ==
    IF /\ FitsU32(chunk_size) /\ FitsU32(sample_rate) /\ FitsU32(byte_rate)
       /\ FitsU16(num_channels) /\ FitsU16(block_align) /\ FitsU16(bits_per_sample)
       /\ FitsU32(data_size)
    THEN [ok |-> TRUE,
          bytes |-> WavHeader(num_channels, sample_rate, byte_rate, block_align,
                              bits_per_sample, data_size) \o audio_data]
    ELSE [ok |-> FALSE, bytes |-> <<>>]

\* num_channels = 1; bytes_per_sample = bits_per_sample // 8;
\* block_align = num_channels * bytes_per_sample; byte_rate = sample_rate * block_align;
\* chunk_size = 36 + data_size
WrapPcm(audio_data, bits_per_sample, sample_rate) ==
    PackWav(audio_data, 1, sample_rate, sample_rate * (1 * (bits_per_sample \div 8)),
            1 * (bits_per_sample \div 8), bits_per_sample, 36 + Len(audio_data), Len(audio_data))

\* bits_per_sample = params.get("bits_per_sample", 16) or 16;
\* sample_rate = params.get("rate", 24000) or 24000
WrapWithParams(audio_data, params) ==
    WrapPcm(audio_data,
            IF params.bits_per_sample = 0 THEN 16 ELSE params.bits_per_sample,
            IF params.rate = 0 THEN 24000 ELSE params.rate)

convert_to_wav(audio_data, mime_type) ==
    IF mime_type # <<>> /\ contains(lower(mime_type), <<"w","a","v">>)
    THEN [ok |-> TRUE, bytes |-> audio_data]
    ELSE WrapWithParams(audio_data, parse_audio_mime_type(mime_type))

ReadU16(b, off) == b[off + 1] + 256 * b[off + 2]

ReadU32(b, off) == b[off + 1] + 256 * b[off + 2] + 65536 * b[off + 3] + 16777216 * b[off + 4]

\* wave.open(path, 'rb'): Wave_read.initfp over a file in the canonical
\* 44-byte layout; anything else raises wave.Error or EOFError (ok = FALSE,
\* reported as "Error": both are caught by "except Exception").  params is
\* getparams() = (nchannels, sampwidth, framerate, nframes, comptype) and frames
\* is readframes(getnframes()).
Wave_read(b) ==
    LET laidOut == /\ Len(b) >= 44
                   /\ SubSeq(b, 1, 4) = RIFF
                   /\ SubSeq(b, 9, 12) = WAVE
                   /\ SubSeq(b, 13, 16) = FmtTag
                   /\ ReadU32(b, 16) = 16
                   /\ ReadU16(b, 20) = 1
                   /\ SubSeq(b, 37, 40) = DataTag
        nchannels == ReadU16(b, 22)
        framerate == ReadU32(b, 24)
        sampwidth == (ReadU16(b, 34) + 7) \div 8
        framesize == nchannels * sampwidth
        chunksize == ReadU32(b, 40)
        nframes == chunksize \div framesize
        avail == IF Len(b) - 44 < chunksize THEN Len(b) - 44 ELSE chunksize
        want == IF nframes * framesize < avail THEN nframes * framesize ELSE avail
    IN  IF laidOut /\ sampwidth # 0 /\ nchannels # 0
        THEN [ok |-> TRUE,
              params |-> <<nchannels, sampwidth, framerate, nframes, "NONE">>,
              frames |-> SubSeq(b, 45, 44 + want)]
        ELSE [ok |-> FALSE, params |-> <<>>, frames |-> <<>>]

RECURSIVE Concat(_)
Concat(seqs) == IF seqs = <<>> THEN <<>> ELSE Head(seqs) \o Concat(Tail(seqs))

\* wave.open(path, 'wb'); setparams(params); writeframes(fr) for each fr; close():
\* the header is patched to the number of bytes written.
Wave_write(params, frames) ==
    LET nchannels == params[1]
        sampwidth == params[2]
        framerate == params[3]
        data == Concat(frames)
    IN  WavHeader(nchannels, framerate, nchannels * framerate * sampwidth,
                  nchannels * sampwidth, sampwidth * 8, Len(data)) \o data

\* Wave_write.setparams accepts 1..4 bytes per sample and a positive rate.
WritableParams(params) == params[1] >= 1 /\ params[2] \in 1..4 /\ params[3] > 0

\* The files a disk holds are DOMAIN disk.
NoFiles == [p \in {} |-> <<>>]

OpenWav(disk, path) ==
    IF path \in DOMAIN disk THEN Wave_read(disk[path]) ELSE [ok |-> FALSE, params |-> <<>>, frames |-> <<>>]

\* Input i makes the reading loops of merge_wav_files raise: it is no WAV file,
\* or its getparams() differs from the first file's.
Unmergeable(disk, input_paths, i) ==
    \/ ~OpenWav(disk, input_paths[i]).ok
    \/ OpenWav(disk, input_paths[i]).params # OpenWav(disk, input_paths[1]).params

\* The first input at which merge_wav_files raises while reading, 0 if none.
FirstUnmergeable(disk, input_paths) ==
    IF \E i \in 1..Len(input_paths) : Unmergeable(disk, input_paths, i)
    THEN CHOOSE i \in 1..Len(input_paths) :
            /\ Unmergeable(disk, input_paths, i)
            /\ \A j \in 1..(i - 1) : ~Unmergeable(disk, input_paths, j)
    ELSE 0

\* with wave.open(output_path, 'wb') as wo: setparams, writeframes
WriteMerged(input_paths, output_path, disk, can_write, params) ==
    IF ~can_write
    THEN [raised |-> "OSError", disk |-> disk]
    ELSE IF ~WritableParams(params)
    THEN [raised |-> "Error", disk |-> (output_path :> <<>>) @@ disk]
    ELSE [raised |-> "",
          disk |-> (output_path :>
                      Wave_write(params, [i \in 1..Len(input_paths) |->
                                             OpenWav(disk, input_paths[i]).frames])) @@ disk]

\* The reading loops of merge_wav_files raise at input k (k # 0), in which
\* case nothing is written, or every input is read.
MergeFrom(input_paths, output_path, disk, can_write, k) ==
    IF k # 0
    THEN [raised |-> IF OpenWav(disk, input_paths[k]).ok THEN "ValueError" ELSE "Error",
          disk |-> disk]
    ELSE WriteMerged(input_paths, output_path, disk, can_write,
                     OpenWav(disk, input_paths[1]).params)

\* Mutant: the output file is opened for writing before the inputs are read.
merge_wav_files_openFirst(input_paths, output_path, disk, can_write) ==
    IF input_paths = <<>>
    THEN [raised |-> "ValueError", disk |-> disk]
    ELSE IF ~can_write
    THEN [raised |-> "OSError", disk |-> disk]
    ELSE MergeFrom(input_paths, output_path, (output_path :> <<>>) @@ disk, can_write,
                   FirstUnmergeable(disk, input_paths))

\* merge_wav_files(input_paths, output_path) on a disk.  can_write says whether
\* the output file can be opened for writing.  raised is "" on success, else the
\* exception's type; disk is the disk afterwards.
merge_wav_files(input_paths, output_path, disk, can_write) ==
    IF input_paths = <<>>
    THEN [raised |-> "ValueError", disk |-> disk]
    ELSE MergeFrom(input_paths, output_path, disk, can_write,
                   FirstUnmergeable(disk, input_paths))

\* save_binary_file(file_name, data): the file is created or replaced.
save_binary_file(file_name, data, disk) == (file_name :> data) @@ disk

----------------------------------------------------------------------------
\* The chunks the producer's stream can yield.

ChunkNoCandidates ==
    [candidates |-> FALSE, parts |-> FALSE, inline_data |-> FALSE, mime_type |-> NoMime, data |-> <<>>]

ChunkText ==
    [candidates |-> TRUE, parts |-> TRUE, inline_data |-> FALSE, mime_type |-> NoMime, data |-> <<>>]

ChunkPcmA ==
    [candidates |-> TRUE, parts |-> TRUE, inline_data |-> TRUE, mime_type |-> MimeL16, data |-> <<1, 2, 3, 4>>]

ChunkPcmB ==
    [candidates |-> TRUE, parts |-> TRUE, inline_data |-> TRUE, mime_type |-> MimeL16, data |-> <<5, 6, 7, 8>>]

ChunkPcmShort ==
    [candidates |-> TRUE, parts |-> TRUE, inline_data |-> TRUE, mime_type |-> NoMime, data |-> <<9, 10>>]

ChunkWav ==
    [candidates |-> TRUE, parts |-> TRUE, inline_data |-> TRUE, mime_type |-> MimeWav,
     data |-> WavHeader(1, 24000, 48000, 2, 16, 4) \o <<15, 16, 17, 18>>]

ChunkMp3 ==
    [candidates |-> TRUE, parts |-> TRUE, inline_data |-> TRUE, mime_type |-> MimeMpeg, data |-> <<255, 251>>]

Chunks ==
    {ChunkNoCandidates, ChunkText, ChunkPcmA, ChunkPcmB, ChunkPcmShort, ChunkWav, ChunkMp3}

NoChunk == ChunkNoCandidates

\* part.inline_data and getattr(part.inline_data, 'data', None), reached only
\* past the two "continue" tests on candidates and on content.parts.
HasPayload(c) == c.candidates /\ c.parts /\ c.inline_data /\ c.data # <<>>

----------------------------------------------------------------------------
\* NativeSpeechDialog._stream_and_save_audio, one call, and on_close.

out_path_base == <<"l","a","s","t","_","a","u","d","i","o","_","g","e","n","e","r","a","t","e","d">>

\* f"{out_path_base}_{file_index}{ext}"
SegmentPath(index, ext) == out_path_base \o <<"_">> \o str(index) \o ext

\* f"{out_path_base}_combined.wav"
out_all == out_path_base \o <<"_","c","o","m","b","i","n","e","d",".","w","a","v">>

None == <<>>

\* ext of the chunk as the loop body computes it, "" when none is guessed.
ChunkExt(c) == guess_extension(c.mime_type)

\* Whether the chunk takes the convert_to_wav branch.
NeedsConversion(c) == ChunkExt(c) = <<>> \/ lower(ChunkExt(c)) \notin RecognizedExts

\* Mutant: a converted chunk is named with the guessed extension, not ".wav".
ChunkFilename_guessedExt(c, index) == SegmentPath(index, ChunkExt(c))

\* The file name the loop body gives the chunk at the current index.
ChunkFilename(c, index) ==
    IF NeedsConversion(c) THEN SegmentPath(index, <<".","w","a","v">>) ELSE SegmentPath(index, ChunkExt(c))

\* Mutant: every chunk is written as received.
SegmentBytes_raw(c) == c.data

\* The bytes the loop body writes for the chunk: converted, or as received.
SegmentBytes(c) ==
    IF NeedsConversion(c) THEN convert_to_wav(c.data, c.mime_type).bytes ELSE c.data

\* Mutant: only the first saved path is tested.
AllWav_firstOnly(paths) == paths # <<>> /\ endswith(lower(paths[1]), <<".","w","a","v">>)

\* all(p.lower().endswith(".wav") for p in saved_paths)
AllWav(paths) == \A i \in 1..Len(paths) : endswith(lower(paths[i]), <<".","w","a","v">>)

\* Mutant: a single segment is merged too.
ShouldMerge_offByOne(paths) == Len(paths) >= 1 /\ AllWav(paths)

\* len(saved_paths) > 1 and all(...)
ShouldMerge(paths) == Len(paths) > 1 /\ AllWav(paths)

\* The disk an earlier generation of two PCM chunks leaves behind: its two
\* segments and their combined file.
StaleSegments ==
    (SegmentPath(0, <<".","w","a","v">>) :> convert_to_wav(ChunkPcmA.data, ChunkPcmA.mime_type).bytes)
        @@ (SegmentPath(1, <<".","w","a","v">>) :> convert_to_wav(ChunkPcmB.data, ChunkPcmB.mime_type).bytes)

StaleDisk ==
    merge_wav_files(<<SegmentPath(0, <<".","w","a","v">>), SegmentPath(1, <<".","w","a","v">>)>>, out_all, StaleSegments, TRUE).disk

\* Mutant: the merge error is passed on as a failed call.
MergeResult_propagate(raised, paths) == IF raised = "" THEN out_all ELSE None

\* return out_all after a merge that did not raise, saved_paths[0] after one
\* that did.
MergeResult(raised, paths) == IF raised = "" THEN out_all ELSE paths[1]

VARIABLES
    pc,           \* where the worker is in _stream_and_save_audio
    is_closed,    \* self.is_closed
    stream,       \* the producer's stream: "none", "open", "ended" or "raised"
    arrived,      \* the chunks the stream has yielded, in arrival order
    chunk,        \* the loop variable
    file_index,
    saved_paths,
    filename,     \* the file name and the bytes about to be written
    pending,
    disk,
    result,       \* the returned value once pc = "done"
    outcome,      \* which return statement returned
    dialogs,      \* error boxes scheduled with wx.CallAfter(wx.MessageBox, ...)
    requests,     \* calls of generate_content_stream
    written,      \* paths written by this call, in order
    merges        \* the calls of merge_wav_files: arguments and exception raised

\* The state of the dependency installer (lib_updater.py, installTasks.py, the
\* module initialisation and the settings panel of the plugin).
VARIABLES
    import_ok,        \* whether "from . import lib_updater" succeeds in this installation
    ipc,              \* where the plugin module / the host process is
    lib_dir,          \* the module global lib_dir
    LIBS_AVAILABLE,
    fs,               \* the add-on's directories: path -> [kind, locked, content]
    clock,            \* time.time()
    ui,               \* callbacks queued with wx.CallAfter, oldest first
    entries,          \* calls of the public entry points the host has still to make
    wpc,              \* where each do_work thread is
    force_reinstall,  \* the force_reinstall argument each thread was started with
    response,         \* the HTTP response each thread reads
    dl,               \* bytes each thread has written to the archive
    success,          \* what download_and_extract returned to each thread
    events,           \* what each thread did, in order
    swept,            \* the directories cleanup_trash tried to delete in this process
    cleanups,         \* runs of cleanup_trash in this process
    retired,          \* the trash directories onReinstall has renamed lib to
    servers           \* the responses the download server may give

installer == <<import_ok, ipc, lib_dir, LIBS_AVAILABLE, fs, clock, ui, entries, wpc,
               force_reinstall, response, dl, success, events, swept, cleanups, retired, servers>>

audio == <<pc, is_closed, stream, arrived, chunk, file_index, saved_paths, filename, pending,
           disk, result, outcome, dialogs, requests, written, merges>>

\* The speech dialog around the worker (NativeSpeechDialog): its flags, its
\* buttons and the generation threads on_generate has started.
VARIABLES
    is_generating,    \* self.is_generating
    destroyed,        \* self.Destroy() has been called
    generate_btn,     \* the label of the Generate button
    play_btn,         \* whether Play is enabled
    save_btn,         \* whether Save is enabled
    last_audio_path,  \* self.last_audio_path
    opened,           \* the paths safe_startfile has opened, in order
    gthreads,         \* the _generate_thread threads: position and saved_path of each
    posted,           \* callbacks posted to the UI thread with wx.CallAfter, oldest first
    clicks            \* presses of the Generate button so far

dialog == <<is_generating, destroyed, generate_btn, play_btn, save_btn, last_audio_path, opened,
            gthreads, posted, clicks>>

vars == <<audio, installer, dialog>>

\* The dialog as __init__ leaves it: nothing generated yet.
DialogOff ==
    /\ is_generating = FALSE
    /\ destroyed = FALSE
    /\ generate_btn = "Generate Speech"
    /\ play_btn = FALSE
    /\ save_btn = FALSE
    /\ last_audio_path = <<>>
    /\ opened = <<>>
    /\ gthreads = <<>>
    /\ posted = <<>>
    /\ clicks = 0

\* A path is the pair of its directory and its base name: os.path.join(directory, name).
ADDON_DIR == "addon"

\* gp_base = os.path.join(ADDON_DIR, "globalPlugins")
gp_base == "globalPlugins"

\* pkg_dir = os.path.dirname(os.path.abspath(__file__)) of the plugin package
pkg_dir == "NativeSpeechGeneration"

LibName == <<"l","i","b">>

\* LIB_DIR = os.path.join(ADDON_DIR, "globalPlugins", "lib")
LIB_DIR == <<gp_base, LibName>>

\* the fallback lib_dir = os.path.join(pkg_dir, "lib")
PkgLib == <<pkg_dir, LibName>>

\* zip_path = os.path.join(addon_dir, "lib.zip"): the same path in every call
zip_path == <<ADDON_DIR, <<"l","i","b",".","z","i","p">>>>

\* The do_work threads one process may have running.
Workers == {1, 2}

NoResponse == [length |-> 0, body |-> 0, valid |-> FALSE, fate |-> "none"]

NoEntries == [p \in {} |-> [kind |-> "dir", locked |-> FALSE, content |-> "none"]]

\* The installer before the plugin module is loaded.
InstallerOff ==
    /\ import_ok = TRUE
    /\ ipc = "off"
    /\ lib_dir = LIB_DIR
    /\ LIBS_AVAILABLE = FALSE
    /\ fs = NoEntries
    /\ clock = 0
    /\ ui = <<>>
    /\ entries = <<>>
    /\ wpc = [w \in Workers |-> "off"]
    /\ force_reinstall = [w \in Workers |-> FALSE]
    /\ response = [w \in Workers |-> NoResponse]
    /\ dl = [w \in Workers |-> 0]
    /\ success = [w \in Workers |-> FALSE]
    /\ events = [w \in Workers |-> <<>>]
    /\ swept = {}
    /\ cleanups = 0
    /\ retired = {}
    /\ servers = {}

locals == <<chunk, filename, pending>>

Init ==
    /\ pc = "idle"
    /\ is_closed = FALSE
    /\ stream = "none"
    /\ arrived = <<>>
    /\ chunk = NoChunk
    /\ file_index = 0
    /\ saved_paths = <<>>
    /\ filename = <<>>
    /\ pending = <<>>
    /\ disk \in {NoFiles, StaleDisk}
    /\ result = None
    /\ outcome = ""
    /\ dialogs = <<>>
    /\ requests = 0
    /\ written = <<>>
    /\ merges = <<>>
    /\ InstallerOff
    /\ DialogOff

\* return <value>
Return(value, how) ==
    /\ pc' = "done"
    /\ result' = value
    /\ outcome' = how

\* _generate_thread reaches the call with the dialog open: file_index = 0,
\* saved_paths = [].
Call ==
    /\ pc = "idle"
    /\ ~is_closed
    /\ pc' = "enter"
    /\ file_index' = 0
    /\ saved_paths' = <<>>
    /\ UNCHANGED <<is_closed, stream, arrived, locals, disk, result, outcome, dialogs, requests,
                   written, merges>>
    /\ UNCHANGED <<installer, dialog>>

\* if self.is_closed: return None
EnterClosed ==
    /\ pc = "enter"
    /\ is_closed
    /\ Return(None, "closed")
    /\ UNCHANGED <<is_closed, stream, arrived, locals, file_index, saved_paths, disk, dialogs,
                   requests, written, merges>>
    /\ UNCHANGED <<installer, dialog>>

\* stream = client.models.generate_content_stream(...)
RequestStream ==
    /\ pc = "enter"
    /\ ~is_closed
    /\ requests' = requests + 1
    /\ stream' = "open"
    /\ pc' = "iter"
    /\ UNCHANGED <<is_closed, arrived, locals, file_index, saved_paths, disk, result, outcome,
                   dialogs, written, merges>>
    /\ UNCHANGED <<installer, dialog>>

\* for chunk in stream: the producer yields one more chunk
StreamYield ==
    /\ pc = "iter"
    /\ Len(arrived) < MaxChunks
    /\ \E c \in Chunks :
          /\ chunk' = c
          /\ arrived' = Append(arrived, c)
    /\ pc' = "body"
    /\ UNCHANGED <<is_closed, stream, file_index, saved_paths, filename, pending, disk, result,
                   outcome, dialogs, requests, written, merges>>
    /\ UNCHANGED <<installer, dialog>>

\* the iterator is exhausted
StreamEnd ==
    /\ pc = "iter"
    /\ stream' = "ended"
    /\ pc' = "end"
    /\ UNCHANGED <<is_closed, arrived, locals, file_index, saved_paths, disk, result, outcome,
                   dialogs, requests, written, merges>>
    /\ UNCHANGED <<installer, dialog>>

\* the iterator raises (transport error, client closed)
StreamRaise ==
    /\ pc = "iter"
    /\ stream' = "raised"
    /\ pc' = "except"
    /\ UNCHANGED <<is_closed, arrived, locals, file_index, saved_paths, disk, result, outcome,
                   dialogs, requests, written, merges>>
    /\ UNCHANGED <<installer, dialog>>

\* if self.is_closed: return None
BodyClosed ==
    /\ pc = "body"
    /\ is_closed
    /\ Return(None, "closed")
    /\ UNCHANGED <<is_closed, stream, arrived, locals, file_index, saved_paths, disk, dialogs,
                   requests, written, merges>>
    /\ UNCHANGED <<installer, dialog>>

\* a chunk without candidates, parts or inline data is passed over
BodySkip ==
    /\ pc = "body"
    /\ ~is_closed
    /\ ~HasPayload(chunk)
    /\ pc' = "iter"
    /\ UNCHANGED <<is_closed, stream, arrived, locals, file_index, saved_paths, disk, result,
                   outcome, dialogs, requests, written, merges>>
    /\ UNCHANGED <<installer, dialog>>

\* the extension, the file name and the bytes to write; convert_to_wav may raise
BodyPrepare ==
    /\ pc = "body"
    /\ ~is_closed
    /\ HasPayload(chunk)
    /\ IF NeedsConversion(chunk) /\ ~convert_to_wav(chunk.data, chunk.mime_type).ok
       THEN pc' = "except" /\ UNCHANGED <<filename, pending>>
       ELSE /\ pc' = "save"
            /\ filename' = ChunkFilename(chunk, file_index)
            /\ pending' = SegmentBytes(chunk)
    /\ UNCHANGED <<is_closed, stream, arrived, chunk, file_index, saved_paths, disk, result,
                   outcome, dialogs, requests, written, merges>>
    /\ UNCHANGED <<installer, dialog>>

\* Mutant: file_index is not advanced.
Save_noIncrement ==
    /\ pc = "save"
    /\ disk' = save_binary_file(filename, pending, disk)
    /\ written' = Append(written, filename)
    /\ saved_paths' = Append(saved_paths, filename)
    /\ file_index' = file_index
    /\ pc' = "iter"
    /\ UNCHANGED <<is_closed, stream, arrived, locals, result, outcome, dialogs, requests,
                   merges>>
    /\ UNCHANGED <<installer, dialog>>

\* save_binary_file(filename, ...); saved_paths.append(filename); file_index += 1
Save ==
    /\ pc = "save"
    /\ disk' = save_binary_file(filename, pending, disk)
    /\ written' = Append(written, filename)
    /\ saved_paths' = Append(saved_paths, filename)
    /\ file_index' = file_index + 1
    /\ pc' = "iter"
    /\ UNCHANGED <<is_closed, stream, arrived, locals, result, outcome, dialogs, requests,
                   merges>>
    /\ UNCHANGED <<installer, dialog>>

\* save_binary_file raises (the file cannot be created)
SaveRaise ==
    /\ pc = "save"
    /\ pc' = "except"
    /\ UNCHANGED <<is_closed, stream, arrived, locals, file_index, saved_paths, disk, result,
                   outcome, dialogs, requests, written, merges>>
    /\ UNCHANGED <<installer, dialog>>

\* Mutant: the return after the error box is missing, so saved_paths[0] raises
\* IndexError into the outer except clause.
EndNoAudio_fallthrough ==
    /\ pc = "end"
    /\ saved_paths = <<>>
    /\ dialogs' = Append(dialogs, "No inline audio data returned by model.")
    /\ pc' = "except"
    /\ UNCHANGED <<is_closed, stream, arrived, locals, file_index, saved_paths, disk, result,
                   outcome, requests, written, merges>>
    /\ UNCHANGED <<installer, dialog>>

\* if not saved_paths: the error box, return None
EndNoAudio ==
    /\ pc = "end"
    /\ saved_paths = <<>>
    /\ dialogs' = Append(dialogs, "No inline audio data returned by model.")
    /\ Return(None, "no_audio")
    /\ UNCHANGED <<is_closed, stream, arrived, locals, file_index, saved_paths, disk, requests,
                   written, merges>>
    /\ UNCHANGED <<installer, dialog>>

\* several segments, all named .wav: on to merge_wav_files
EndToMerge ==
    /\ pc = "end"
    /\ saved_paths # <<>>
    /\ ShouldMerge(saved_paths)
    /\ pc' = "merge"
    /\ UNCHANGED <<is_closed, stream, arrived, locals, file_index, saved_paths, disk, result,
                   outcome, dialogs, requests, written, merges>>
    /\ UNCHANGED <<installer, dialog>>

\* return saved_paths[0]
EndFirst ==
    /\ pc = "end"
    /\ saved_paths # <<>>
    /\ ~ShouldMerge(saved_paths)
    /\ Return(saved_paths[1], "first")
    /\ UNCHANGED <<is_closed, stream, arrived, locals, file_index, saved_paths, disk, dialogs,
                   requests, written, merges>>
    /\ UNCHANGED <<installer, dialog>>

\* What one call of merge_wav_files leaves behind: the disk, the record of the
\* call, and the output path among the written ones when it was opened.
MergeEffect(m, input_paths, can_write) ==
    /\ disk' = m.disk
    /\ merges' = Append(merges, [input_paths |-> input_paths, output_path |-> out_all,
                                 can_write |-> can_write, raised |-> m.raised])
    /\ written' = IF m.disk = disk /\ m.raised # "" THEN written ELSE Append(written, out_all)

\* return out_all, or saved_paths[0] from the except clause
MergeReturn(m) ==
    Return(MergeResult(m.raised, saved_paths), IF m.raised = "" THEN "merged" ELSE "merge_failed")

\* try: merge_wav_files(saved_paths, out_all); return out_all
\* except Exception: return saved_paths[0]
Merge ==
    /\ pc = "merge"
    /\ \E can_write \in BOOLEAN :
          \E m \in {merge_wav_files(saved_paths, out_all, disk, can_write)} :
              /\ MergeEffect(m, saved_paths, can_write)
              /\ MergeReturn(m)
    /\ UNCHANGED <<is_closed, stream, arrived, locals, file_index, saved_paths, dialogs,
                   requests>>
    /\ UNCHANGED <<installer, dialog>>

\* except Exception: log, the error box, return None
Except ==
    /\ pc = "except"
    /\ dialogs' = Append(dialogs, "Failed to generate speech")
    /\ Return(None, "error")
    /\ UNCHANGED <<is_closed, stream, arrived, locals, file_index, saved_paths, disk, requests,
                   written, merges>>
    /\ UNCHANGED <<installer, dialog>>

\* on_close on the UI thread: self.is_closed = True
on_close ==
    /\ ~is_closed
    /\ ~destroyed
    /\ is_closed' = TRUE
    /\ destroyed' = TRUE
    /\ UNCHANGED <<pc, stream, arrived, locals, file_index, saved_paths, disk, result, outcome,
                   dialogs, requests, written, merges>>
    /\ UNCHANGED <<is_generating, generate_btn, play_btn, save_btn, last_audio_path, opened,
                   gthreads, posted, clicks>>
    /\ UNCHANGED installer

Next ==
    \/ Call
    \/ EnterClosed
    \/ RequestStream
    \/ StreamYield
    \/ StreamEnd
    \/ StreamRaise
    \/ BodyClosed
    \/ BodySkip
    \/ BodyPrepare
    \/ Save
    \/ SaveRaise
    \/ EndNoAudio
    \/ EndToMerge
    \/ EndFirst
    \/ Merge
    \/ Except
    \/ on_close

Spec == Init /\ [][Next]_vars

----------------------------------------------------------------------------
\* merge_wav_files called on its own, over lists of the files of a small disk.

\* Bound of the model: the longest list of input paths.
MaxInputs == 3

WavA == convert_to_wav(<<1, 2, 3, 4>>, MimeL16).bytes

WavB == convert_to_wav(<<5, 6, 7, 8>>, MimeL16).bytes

WavShort == convert_to_wav(<<9, 10>>, MimeL16).bytes

Wav48k == convert_to_wav(<<11, 12, 13, 14>>, MimeL16Rate48k).bytes

Wav8bit == WavHeader(1, 24000, 24000, 1, 8, 2) \o <<21, 22>>

WavStereo == WavHeader(2, 24000, 96000, 4, 16, 8) \o <<31, 32, 33, 34, 35, 36, 37, 38>>

NotWav == <<255, 251>>

MergeInputs == <<WavA, WavB, WavShort, Wav48k, Wav8bit, WavStereo, NotWav>>

MergePaths == {SegmentPath(i - 1, <<".","w","a","v">>) : i \in 1..Len(MergeInputs)}

MergeDisk == [path \in MergePaths |->
                 MergeInputs[CHOOSE i \in 1..Len(MergeInputs) : SegmentPath(i - 1, <<".","w","a","v">>) = path]]

\* The same disk with an output file left by an earlier merge.
MergeDiskStale == (out_all :> StaleDisk[out_all]) @@ MergeDisk

MergeDisks == {MergeDisk, MergeDiskStale}

\* saved_paths holds the input_paths of the call.
MergeInit ==
    /\ pc = "merge_call"
    /\ saved_paths \in UNION {[1..n -> MergePaths] : n \in 0..MaxInputs}
    /\ disk \in MergeDisks
    /\ is_closed = FALSE
    /\ stream = "none"
    /\ arrived = <<>>
    /\ chunk = NoChunk
    /\ file_index = 0
    /\ filename = <<>>
    /\ pending = <<>>
    /\ result = None
    /\ outcome = ""
    /\ dialogs = <<>>
    /\ requests = 0
    /\ written = <<>>
    /\ merges = <<>>
    /\ InstallerOff
    /\ DialogOff

\* merge_wav_files(input_paths, out_all) returns or raises
MergeCall ==
    /\ pc = "merge_call"
    /\ \E can_write \in BOOLEAN :
          \E m \in {merge_wav_files(saved_paths, out_all, disk, can_write)} :
              MergeEffect(m, saved_paths, can_write)
    /\ pc' = "merge_returned"
    /\ UNCHANGED <<is_closed, stream, arrived, locals, file_index, saved_paths, result, outcome,
                   dialogs, requests>>
    /\ UNCHANGED <<installer, dialog>>

MergeNext == MergeCall

MergeSpec == MergeInit /\ [][MergeNext]_vars

----------------------------------------------------------------------------
\* Properties of _stream_and_save_audio, checked under Spec.

\* The call has returned after the stream was exhausted.
EndedNormally == pc = "done" /\ stream = "ended"

\* The payload-bearing chunks among those that arrived, in arrival order.
Payloads == SelectSeq(arrived, HasPayload)

WavNamed(path) == endswith(path, <<".","w","a","v">>)

NonWavNamed(path) ==
    endswith(path, <<".","m","p","3">>) \/ endswith(path, <<".","o","g","g">>) \/ endswith(path, <<".","f","l","a","c">>)

\* A chunk whose content-type maps to the extension .wav.
RecognizedWav(c) == HasPayload(c) /\ guess_extension(c.mime_type) = <<".","w","a","v">>

\* A chunk of raw PCM: its content-type maps to no extension.
UnrecognizedPcm(c) == HasPayload(c) /\ guess_extension(c.mime_type) = <<>>

\* C1: when the stream ends with two or more saved segments all named .wav,
\* merge_wav_files is called once, on the saved paths in saved order with
\* <base>_combined.wav as output; the call returns the combined path if the
\* merge did not raise and the first segment's path if it raised, and in
\* neither case fails (no None result, no error box).
C1_MergeOrFirstSegment ==
    (/\ EndedNormally
     /\ Len(saved_paths) >= 2
     /\ \A i \in 1..Len(saved_paths) : WavNamed(saved_paths[i]))
    => /\ Len(merges) = 1
       /\ merges[1].input_paths = saved_paths
       /\ merges[1].output_path = out_all
       /\ merges[1].raised = "" => result = out_all
       /\ merges[1].raised # "" => result = saved_paths[1]
       /\ result # None
       /\ dialogs = <<>>

\* C1 witness: a stream of two .wav segments whose merge raised, answered with
\* the first segment.
C1_Witness ==
    /\ EndedNormally
    /\ Len(saved_paths) = 2
    /\ Len(merges) = 1
    /\ merges[1].raised = "ValueError"
    /\ result = saved_paths[1]

\* The stream mixed recognized .wav chunks with raw PCM chunks and nothing else.
MixedWavAndPcm ==
    /\ \E i \in 1..Len(Payloads) : RecognizedWav(Payloads[i])
    /\ \E i \in 1..Len(Payloads) : UnrecognizedPcm(Payloads[i])
    /\ \A i \in 1..Len(Payloads) : RecognizedWav(Payloads[i]) \/ UnrecognizedPcm(Payloads[i])

\* C2 as claimed: a stream that mixes recognized .wav chunks with raw PCM
\* chunks returns the first segment's path and never calls merge_wav_files.
C2_MixedNeverMerges ==
    (EndedNormally /\ MixedWavAndPcm) => (merges = <<>> /\ result = saved_paths[1])

\* C2 amended: such a stream saves every chunk under a .wav name, so
\* merge_wav_files is called once on all the segments in saved order; the call
\* returns the combined file if the merge did not raise and the first segment's
\* path if it did.
C2_MixedIsMerged ==
    (EndedNormally /\ MixedWavAndPcm)
    => /\ Len(saved_paths) = Len(Payloads)
       /\ \A i \in 1..Len(saved_paths) : WavNamed(saved_paths[i])
       /\ Len(merges) = 1
       /\ merges[1].input_paths = saved_paths
       /\ result = IF merges[1].raised = "" THEN out_all ELSE saved_paths[1]

\* C2 witness: three payload chunks, two recognized .wav and one raw PCM,
\* merged into the combined file.
C2_Witness ==
    /\ EndedNormally
    /\ Len(Payloads) = 3
    /\ Cardinality({i \in 1..3 : RecognizedWav(Payloads[i])}) = 2
    /\ Cardinality({i \in 1..3 : UnrecognizedPcm(Payloads[i])}) = 1
    /\ Len(merges) = 1
    /\ result = out_all

\* C3 as claimed: once is_closed is set, the call writes no further file,
\* schedules no error box and, when it returns, returns None.
C3_ClosedStopsEverything ==
    [][is_closed => /\ written' = written
                    /\ dialogs' = dialogs
                    /\ (pc # "done" /\ pc' = "done") => result' = None]_vars

\* C4: when the stream ends normally and no chunk carried a payload, the call
\* returns None, schedules the no-audio error box and no other, writes no file,
\* calls no merge and has requested the stream once.
C4_NoAudioProduced ==
    (EndedNormally /\ Payloads = <<>>)
    => /\ result = None
       /\ dialogs = <<"No inline audio data returned by model.">>
       /\ saved_paths = <<>>
       /\ written = <<>>
       /\ merges = <<>>
       /\ requests = 1

\* C4 witness: a stream of chunks without payload that ended, answered None.
C4_Witness ==
    /\ EndedNormally
    /\ Len(arrived) >= 2
    /\ Payloads = <<>>
    /\ result = None
    /\ Len(dialogs) = 1

\* C5 as claimed: an uncancelled call that persisted at least one segment
\* returns an artifact path.
C5_PartialSuccess ==
    (pc = "done" /\ ~is_closed /\ saved_paths # <<>>) => result # None

\* The extension the k-th payload chunk is saved under.
SavedExt(c) ==
    IF guess_extension(c.mime_type) \in RecognizedExts THEN guess_extension(c.mime_type) ELSE <<".","w","a","v">>

\* The frames of the files at the given paths, concatenated in order.
FramesOf(paths) == Concat([k \in 1..Len(paths) |-> OpenWav(disk, paths[k]).frames])

\* C6: the k-th payload chunk (k from 0) is saved as <base>_<k><ext>; the index
\* grows by one per saved chunk, no name is used twice, a chunk without payload
\* takes no index, the merge gets the saved paths in that order, and the frames
\* of a combined file are the segments' frames in arrival order.
C6_ArrivalOrder ==
    /\ file_index = Len(saved_paths)
    /\ Len(saved_paths) <= Len(Payloads)
    /\ \A k \in 1..Len(saved_paths) :
          /\ saved_paths[k] = out_path_base \o <<"_">> \o str(k - 1) \o SavedExt(Payloads[k])
          /\ disk[saved_paths[k]] = SegmentBytes(Payloads[k])
          /\ written[k] = saved_paths[k]
          /\ \A j \in 1..(k - 1) : saved_paths[j] # saved_paths[k]
    /\ (pc \in {"iter", "end", "merge"} \/ EndedNormally) => Len(saved_paths) = Len(Payloads)
    /\ \A i \in 1..Len(merges) : merges[i].input_paths = saved_paths
    /\ (Len(merges) = 1 /\ merges[1].raised = "")
       => OpenWav(disk, out_all).frames = FramesOf(saved_paths)

\* C6 witness: two payload chunks with a chunk without payload between them,
\* saved at indexes 0 and 1 and merged.
C6_Witness ==
    /\ EndedNormally
    /\ Len(arrived) = 3
    /\ ~HasPayload(arrived[2])
    /\ Len(saved_paths) = 2
    /\ file_index = 2
    /\ result = out_all
    /\ OpenWav(disk, out_all).frames = <<1, 2, 3, 4, 5, 6, 7, 8>>

\* C7: when the stream ends with exactly one saved segment, the call returns
\* that segment's path, calls no merge and neither creates nor rewrites the
\* combined file.
C7_SingleSegment ==
    (EndedNormally /\ Len(saved_paths) = 1)
    => /\ result = saved_paths[1]
       /\ merges = <<>>
       /\ written = saved_paths
       /\ out_all \in DOMAIN disk => disk[out_all] = StaleDisk[out_all]

\* C7 witness: one segment returned while an earlier combined file stays as
\* it was.
C7_Witness ==
    /\ EndedNormally
    /\ Len(saved_paths) = 1
    /\ result = saved_paths[1]
    /\ out_all \in DOMAIN disk

\* C8: when the stream ends with two or more segments of which at least one is
\* named .mp3, .ogg or .flac, the call returns the first segment's path, calls
\* no merge and writes no combined file.
C8_MixedExtensions ==
    (/\ EndedNormally
     /\ Len(saved_paths) >= 2
     /\ \E i \in 1..Len(saved_paths) : NonWavNamed(saved_paths[i]))
    => /\ result = saved_paths[1]
       /\ merges = <<>>
       /\ written = saved_paths

\* C8 witness: a .wav segment followed by an .mp3 segment, answered with the
\* .wav segment.
C8_Witness ==
    /\ EndedNormally
    /\ Len(saved_paths) = 2
    /\ WavNamed(saved_paths[1])
    /\ NonWavNamed(saved_paths[2])
    /\ result = saved_paths[1]
    /\ merges = <<>>

----------------------------------------------------------------------------
\* Properties of merge_wav_files, checked under MergeSpec.

MergeReturned == pc = "merge_returned"

\* getparams() of input i; the inputs are not touched by the merge.
InputParams(i) == OpenWav(disk, saved_paths[i]).params

AllReadable == \A i \in 1..Len(saved_paths) : OpenWav(disk, saved_paths[i]).ok

\* Some input after the first is a WAV file whose getparams() differs from the
\* first file's.
SomeDiffers ==
    /\ saved_paths # <<>>
    /\ OpenWav(disk, saved_paths[1]).ok
    /\ \E i \in 2..Len(saved_paths) :
          OpenWav(disk, saved_paths[i]).ok /\ InputParams(i) # InputParams(1)

\* C9: when a file after the first differs from the first in getparams()
\* (channels, sample width, rate, frame count, compression), merge_wav_files
\* raises and leaves the output path as it was: not created, truncated or
\* written; with every input a WAV file the error is the ValueError for
\* different parameters.
C9_IncompatibleNoOutput ==
    (MergeReturned /\ SomeDiffers)
    => /\ merges[1].raised # ""
       /\ AllReadable => merges[1].raised = "ValueError"
       /\ written = <<>>
       /\ disk \in MergeDisks

\* C9 witness: two inputs that differ in sample rate only, with an earlier
\* output file on disk.
C9_Witness ==
    /\ MergeReturned
    /\ saved_paths = <<SegmentPath(0, <<".","w","a","v">>), SegmentPath(3, <<".","w","a","v">>)>>
    /\ InputParams(1)[3] # InputParams(2)[3]
    /\ merges[1].raised = "ValueError"
    /\ disk = MergeDiskStale

\* Every input is a WAV file with the first file's channel count, sample width
\* and sample rate.
SameFormat ==
    /\ saved_paths # <<>>
    /\ AllReadable
    /\ \A i \in 1..Len(saved_paths) : SubSeq(InputParams(i), 1, 3) = SubSeq(InputParams(1), 1, 3)

RECURSIVE SumFrames(_)
SumFrames(i) == IF i = 0 THEN 0 ELSE InputParams(i)[4] + SumFrames(i - 1)

\* C10 as claimed: over inputs of one sample rate, sample width and channel
\* count, of any lengths, merge_wav_files succeeds and writes an output whose
\* frame count is the sum of the inputs' and whose frames are the inputs' frames
\* in input order.
C10_SameFormatMerges ==
    (MergeReturned /\ SameFormat /\ merges[1].can_write)
    => /\ merges[1].raised = ""
       /\ OpenWav(disk, out_all).ok
       /\ OpenWav(disk, out_all).params[4] = SumFrames(Len(saved_paths))
       /\ OpenWav(disk, out_all).frames = FramesOf(saved_paths)

----------------------------------------------------------------------------
\* The dependency installer: lib_updater.py, installTasks.py, the module
\* initialisation of the plugin package and the settings panel's onReinstall.

\* os.path.exists(path)
exists(f, path) == path \in DOMAIN f

\* os.path.isdir(path)
isdir(f, path) == path \in DOMAIN f /\ f[path].kind = "dir"

\* the directory entry is gone
Unlink(f, path) == [q \in DOMAIN f \ {path} |-> f[q]]

\* shutil.rmtree(path, ignore_errors=True): a directory with files another
\* process or this one holds open loses what can be deleted and stays.
rmtree_ignore_errors(f, path) ==
    IF ~exists(f, path) THEN f
    ELSE IF f[path].locked THEN [f EXCEPT ![path].content = "partial"]
    ELSE Unlink(f, path)

\* str(time.time()) of a clock reading without fraction
TimeStr(t) == str(t) \o <<".","0">>

\* "lib_trash_*" of trash_pattern: glob matches base names through
\* fnmatch, which folds case on Windows; "*" matches any rest, the empty one too.
TrashPrefix == <<"l","i","b","_","t","r","a","s","h","_">>

fnmatch_trash(name) == startswith(lower(name), TrashPrefix)

\* glob.glob(os.path.join(gp_base, "lib_trash_*"))
glob_trash(f) == {path \in DOMAIN f : path[1] = gp_base /\ fnmatch_trash(path[2])}

\* One iteration of the loop of cleanup_trash: if os.path.isdir(trash_dir):
\* shutil.rmtree(trash_dir, ignore_errors=True).
SweepOne(acc, trash_dir) ==
    IF isdir(acc.fs, trash_dir)
    THEN [raised |-> acc.raised,
          fs |-> rmtree_ignore_errors(acc.fs, trash_dir),
          swept |-> acc.swept \cup {trash_dir}]
    ELSE acc

\* Mutant: a directory that cannot be deleted ends the sweep with its error.
RECURSIVE SweepFrom_stopAtFailure(_, _)
SweepFrom_stopAtFailure(acc, todo) ==
    IF todo = {} \/ acc.raised THEN acc
    ELSE SweepFrom_stopAtFailure(
             IF isdir(acc.fs, CHOOSE q \in todo : TRUE) /\ acc.fs[CHOOSE q \in todo : TRUE].locked
             THEN [acc EXCEPT !.raised = TRUE]
             ELSE SweepOne(acc, CHOOSE q \in todo : TRUE),
             todo \ {CHOOSE q \in todo : TRUE})

\* for trash_dir in glob.glob(trash_pattern): ...
RECURSIVE SweepFrom(_, _)
SweepFrom(acc, todo) ==
    IF todo = {} THEN acc
    ELSE SweepFrom(SweepOne(acc, CHOOSE q \in todo : TRUE), todo \ {CHOOSE q \in todo : TRUE})

\* cleanup_trash(): what is left of the directories, what it tried to delete
\* and whether an exception left it.
cleanup_trash(f) == SweepFrom([raised |-> FALSE, fs |-> f, swept |-> {}], glob_trash(f))

\* temp_trash = target_lib + "_trash_" + str(time.time())
TrashPath(target_lib, t) == <<target_lib[1], target_lib[2] \o <<"_","t","r","a","s","h","_">> \o TimeStr(t)>>

\* The audio side while only the installer runs.
AudioOff ==
    /\ pc = "idle"
    /\ is_closed = FALSE
    /\ stream = "none"
    /\ arrived = <<>>
    /\ chunk = NoChunk
    /\ file_index = 0
    /\ saved_paths = <<>>
    /\ filename = <<>>
    /\ pending = <<>>
    /\ disk = NoFiles
    /\ result = None
    /\ outcome = ""
    /\ dialogs = <<>>
    /\ requests = 0
    /\ written = <<>>
    /\ merges = <<>>

\* No do_work thread has been started.
WorkersOff ==
    /\ wpc = [w \in Workers |-> "off"]
    /\ force_reinstall = [w \in Workers |-> FALSE]
    /\ response = [w \in Workers |-> NoResponse]
    /\ dl = [w \in Workers |-> 0]
    /\ success = [w \in Workers |-> FALSE]
    /\ events = [w \in Workers |-> <<>>]

workers == <<wpc, force_reinstall, response, dl, success, events>>

Dir(locked, content) == [kind |-> "dir", locked |-> locked, content |-> content]

File(content) == [kind |-> "file", locked |-> FALSE, content |-> content]

----------------------------------------------------------------------------
\* cleanup_trash called on its own, over the directories next to lib.

\* Bound of the model: the trash directories earlier updates left behind.
MaxTrash == 2

\* a directory next to lib whose name the pattern does not match
SiblingDir == <<gp_base, <<"l","i","b","_","t","r","a","s","h">>>>

\* a file, not a directory, whose name the pattern matches
TrashNamedFile == <<gp_base, TrashPrefix \o <<"n","o","t","e">>>>

SweepPaths == {TrashPath(LIB_DIR, t) : t \in 1..MaxTrash} \cup {LIB_DIR, SiblingDir, TrashNamedFile}

SweepEntries == {Dir(FALSE, "installed"), Dir(TRUE, "installed"), File("note")}

SweepAllowed(path, entry) == (entry.kind = "file") <=> (path = TrashNamedFile)

SweepDisks ==
    {f \in UNION {[D -> SweepEntries] : D \in SUBSET SweepPaths} :
        \A path \in DOMAIN f : SweepAllowed(path, f[path])}

SweepInit ==
    /\ AudioOff
    /\ DialogOff
    /\ WorkersOff
    /\ import_ok = TRUE
    /\ ipc = "sweep_call"
    /\ lib_dir = LIB_DIR
    /\ LIBS_AVAILABLE = FALSE
    /\ fs \in SweepDisks
    /\ clock = 0
    /\ ui = <<>>
    /\ entries = <<>>
    /\ swept = {}
    /\ cleanups = 0
    /\ retired = {}
    /\ servers = {}

\* the effects of one call of cleanup_trash
Swept(r) ==
    /\ fs' = r.fs
    /\ swept' = swept \cup r.swept
    /\ cleanups' = cleanups + 1

\* cleanup_trash() returns or raises
SweepCall ==
    /\ ipc = "sweep_call"
    /\ \E r \in {cleanup_trash(fs)} :
          /\ Swept(r)
          /\ ipc' = IF r.raised THEN "sweep_raised" ELSE "sweep_returned"
    /\ UNCHANGED <<servers, import_ok, lib_dir, LIBS_AVAILABLE, clock, ui, entries, retired, workers, audio, dialog>>

SweepNext == SweepCall

SweepSpec == SweepInit /\ [][SweepNext]_vars

\* The trash directories of the disk: lib_trash_<time>, directories.
TrashDirs(f) == {path \in {TrashPath(LIB_DIR, t) : t \in 1..MaxTrash} : isdir(f, path)}

\* C12: every call of cleanup_trash returns without raising; it has tried every
\* trash directory, the locked ones included; afterwards the trash directories
\* left are exactly the locked ones, and lib, the directories of other names
\* and the files are as they were.
C12_SweepNeverRaises ==
    [][ipc = "sweep_call"
       => /\ ipc' = "sweep_returned"
          /\ swept' = TrashDirs(fs)
          /\ TrashDirs(fs') = {path \in TrashDirs(fs) : fs[path].locked}
          /\ DOMAIN fs' \subseteq DOMAIN fs
          /\ \A path \in DOMAIN fs \ TrashDirs(fs) :
                path \in DOMAIN fs' /\ fs'[path] = fs[path]]_vars

\* C12 witness: two trash directories, one locked: the call returned, both
\* were tried and only the locked one is left, next to an untouched lib.
C12_Witness ==
    /\ ipc = "sweep_returned"
    /\ swept = {TrashPath(LIB_DIR, 1), TrashPath(LIB_DIR, 2)}
    /\ exists(fs, TrashPath(LIB_DIR, 1))
    /\ ~exists(fs, TrashPath(LIB_DIR, 2))
    /\ exists(fs, LIB_DIR)
    /\ exists(fs, SiblingDir)
    /\ exists(fs, TrashNamedFile)

----------------------------------------------------------------------------
\* One NVDA process after another: the plugin module is loaded, the host and
\* the user call the installer's entry points, core.restart() ends the process.

\* Bound of the model: the clock readings, one more per restart.
MaxClock == 2

\* wx.CallAfter(callback)
CallAfter(queue, callback) == Append(queue, callback)

\* try: from . import lib_updater ... except Exception: lib_dir = os.path.join(pkg_dir, "lib")
ImportUpdater ==
    /\ ipc = "boot"
    /\ IF import_ok
       THEN ipc' = "initialize" /\ UNCHANGED lib_dir
       ELSE ipc' = "check_dir" /\ lib_dir' = PkgLib
    /\ UNCHANGED <<servers, import_ok, LIBS_AVAILABLE, fs, clock, ui, entries, swept, cleanups, retired,
                   workers, audio, dialog>>

\* lib_updater.initialize(); lib_dir = lib_updater.LIB_DIR
initialize ==
    /\ ipc = "initialize"
    /\ \E r \in {cleanup_trash(fs)} :
          /\ Swept(r)
          /\ lib_dir' = IF r.raised THEN PkgLib ELSE LIB_DIR
    /\ ipc' = "check_dir"
    /\ UNCHANGED <<servers, import_ok, LIBS_AVAILABLE, clock, ui, entries, retired, workers, audio, dialog>>

\* if not os.path.isdir(lib_dir): wx.CallAfter(run_check) else: LIBS_AVAILABLE = True
CheckDir ==
    /\ ipc = "check_dir"
    /\ ipc' = "running"
    /\ LIBS_AVAILABLE' = isdir(fs, lib_dir)
    /\ ui' = IF isdir(fs, lib_dir) THEN ui ELSE CallAfter(ui, [fn |-> "run_check"])
    /\ UNCHANGED <<servers, import_ok, lib_dir, fs, clock, entries, swept, cleanups, retired, workers, audio, dialog>>

\* the head of the event queue is the next callback the UI thread runs
UiHead(fn) == ipc = "running" /\ ui # <<>> /\ Head(ui).fn = fn

\* check_and_install_dependencies(force_reinstall): return when lib exists and
\* no reinstall is forced, else wx.CallAfter(confirm_action)
check_and_install_dependencies(queue, force) ==
    IF ~force /\ exists(fs, LIB_DIR) THEN queue
    ELSE CallAfter(queue, [fn |-> "confirm_action", force |-> force])

\* run_check: the import is tried again; its failure is logged
run_check ==
    /\ UiHead("run_check")
    /\ ui' = IF import_ok THEN check_and_install_dependencies(Tail(ui), FALSE) ELSE Tail(ui)
    /\ UNCHANGED <<servers, import_ok, ipc, lib_dir, LIBS_AVAILABLE, fs, clock, entries, swept, cleanups,
                   retired, workers, audio, dialog>>

\* reinstall_dependencies(): check_and_install_dependencies(force_reinstall=True)
reinstall_dependencies ==
    /\ ipc = "running"
    /\ entries # <<>>
    /\ entries' = Tail(entries)
    /\ ui' = check_and_install_dependencies(ui, TRUE)
    /\ UNCHANGED <<servers, import_ok, ipc, lib_dir, LIBS_AVAILABLE, fs, clock, swept, cleanups, retired,
                   workers, audio, dialog>>

\* the thread run_installation starts
FreeWorker == CHOOSE w \in Workers : wpc[w] = "off" /\ \A v \in Workers : wpc[v] = "off" => w <= v

\* confirm_action: OK starts run_installation, which starts the do_work thread
confirm_action ==
    /\ UiHead("confirm_action")
    /\ ui' = Tail(ui)
    /\ \E res \in {"OK", "CANCEL"} :
          IF res = "OK" /\ \E w \in Workers : wpc[w] = "off"
          THEN /\ wpc' = [wpc EXCEPT ![FreeWorker] = "do_work"]
               /\ force_reinstall' = [force_reinstall EXCEPT ![FreeWorker] = Head(ui).force]
          ELSE UNCHANGED <<wpc, force_reinstall>>
    /\ UNCHANGED <<servers, import_ok, ipc, lib_dir, LIBS_AVAILABLE, fs, clock, entries, swept, cleanups,
                   retired, response, dl, success, events, audio, dialog>>

\* update_progress and the message boxes: the UI thread shows them
ShowCallback ==
    /\ ipc = "running" /\ ui # <<>> /\ Head(ui).fn \in {"progress", "messageBox", "MessageBox"}
    /\ ui' = Tail(ui)
    /\ UNCHANGED <<servers, import_ok, ipc, lib_dir, LIBS_AVAILABLE, fs, clock, entries, swept, cleanups,
                   retired, workers, audio, dialog>>

\* final_message: success asks for the restart, failure queues the error box
final_message ==
    /\ UiHead("final_message")
    /\ IF Head(ui).success
       THEN ipc' = "restarting" /\ ui' = Tail(ui)
       ELSE ipc' = ipc /\ ui' = CallAfter(Tail(ui), [fn |-> "MessageBox"])
    /\ UNCHANGED <<servers, import_ok, lib_dir, LIBS_AVAILABLE, fs, clock, entries, swept, cleanups,
                   retired, workers, audio, dialog>>

\* os.rename(src, dst): a directory with open files may refuse to move and an
\* existing destination always does
RenameOutcomes(f, src, dst) ==
    IF exists(f, dst) THEN {FALSE} ELSE IF f[src].locked THEN {TRUE, FALSE} ELSE {TRUE}

Rename(f, src, dst) ==
    [q \in (DOMAIN f \ {src}) \cup {dst} |-> IF q = dst THEN f[src] ELSE f[q]]

\* onReinstall after the user's OK: rename lib to lib_trash_<time>, try to
\* delete the renamed directory, announce the restart and call core.restart();
\* a failed rename shows the error box instead.
onReinstall ==
    /\ ipc = "running"
    /\ LIBS_AVAILABLE
    /\ IF exists(fs, lib_dir)
       THEN \E renamed \in RenameOutcomes(fs, lib_dir, TrashPath(lib_dir, clock)) :
               IF renamed
               THEN /\ fs' = rmtree_ignore_errors(Rename(fs, lib_dir, TrashPath(lib_dir, clock)),
                                                  TrashPath(lib_dir, clock))
                    /\ retired' = retired \cup {TrashPath(lib_dir, clock)}
                    /\ ipc' = "restarting"
               ELSE UNCHANGED <<fs, retired, ipc>>
       ELSE ipc' = "restarting" /\ UNCHANGED <<fs, retired>>
    /\ UNCHANGED <<servers, import_ok, lib_dir, LIBS_AVAILABLE, clock, ui, entries, swept, cleanups,
                   workers, audio, dialog>>

\* the directories whose open files a process exit may release
Released(f, paths) ==
    [q \in DOMAIN f |-> IF q \in paths THEN [f[q] EXCEPT !.locked = FALSE] ELSE f[q]]

\* core.restart(): the process ends, its threads and queued callbacks with it,
\* and NVDA starts again; time has passed.
Restart ==
    /\ ipc = "restarting"
    /\ clock < MaxClock
    /\ clock' = clock + 1
    /\ ipc' = "boot"
    /\ lib_dir' = LIB_DIR
    /\ LIBS_AVAILABLE' = FALSE
    /\ ui' = <<>>
    /\ swept' = {}
    /\ cleanups' = 0
    /\ \E paths \in SUBSET {q \in DOMAIN fs : fs[q].locked} : fs' = Released(fs, paths)
    /\ wpc' = [w \in Workers |-> "off"]
    /\ force_reinstall' = [w \in Workers |-> FALSE]
    /\ response' = [w \in Workers |-> NoResponse]
    /\ dl' = [w \in Workers |-> 0]
    /\ success' = [w \in Workers |-> FALSE]
    /\ events' = [w \in Workers |-> <<>>]
    /\ UNCHANGED <<servers, import_ok, entries, retired, audio, dialog>>

----------------------------------------------------------------------------
\* The do_work thread: check_and_install_dependencies.do_work and
\* download_and_extract of lib_updater.py.

host == <<servers, import_ok, ipc, lib_dir, LIBS_AVAILABLE, clock, entries, swept, cleanups, retired>>

\* response.read(8192)
ReadSize == 8192

Event(op, arg) == [op |-> op, arg |-> arg]

Did(w, es) == events' = [events EXCEPT ![w] = @ \o es]

Goto(w, label) == wpc' = [wpc EXCEPT ![w] = label]

Progress(w, value) == [fn |-> "progress", w |-> w, value |-> value]

\* int(dl / total_length * 70) in double precision: the quotient 47/70 rounds
\* to 0.6714285714285714, whose product with 70 is 46.99999999999999; every
\* other quotient of a download gives the exact floor.
Int70(n, total_length) ==
    IF 70 * n = 47 * total_length THEN 46 ELSE (70 * n) \div total_length

\* Mutant: the download is scaled to the whole bar.
Percent_wholeBar(n, total_length) == 10 + (100 * n) \div total_length

\* percent = 10 + int(dl / total_length * 70)
Percent(n, total_length) == 10 + Int70(n, total_length)

Min(a, b) == IF a < b THEN a ELSE b

\* the bytes response.read(8192) returns: what is left of the declared length
\* and of what the server sends, at most 8192
ReadLen(r, n) == Min(ReadSize, Min(r.length - n, r.body - n))

\* what this thread downloaded is a complete archive
ValidArchive(r, n) == r.valid /\ n = r.body /\ (r.length = 0 \/ n = r.length)

\* if force_reinstall and os.path.exists(lib_dir): shutil.rmtree(lib_dir),
\* its failure logged as a warning
do_work(w) ==
    /\ wpc[w] = "do_work"
    /\ IF force_reinstall[w] /\ exists(fs, LIB_DIR)
       THEN IF fs[LIB_DIR].locked
            THEN /\ fs' = [fs EXCEPT ![LIB_DIR].content = "partial"]
                 /\ Did(w, <<Event("rmtree", 0)>>)
            ELSE /\ fs' = Unlink(fs, LIB_DIR)
                 /\ Did(w, <<Event("rmtree", 1)>>)
       ELSE UNCHANGED <<fs, events>>
    /\ Goto(w, "start")
    /\ UNCHANGED <<host, ui, force_reinstall, response, dl, success, audio, dialog>>

\* wx.CallAfter(progress_callback, 10, "Downloading libraries...")
dae_start(w) ==
    /\ wpc[w] = "start"
    /\ ui' = CallAfter(ui, Progress(w, 10))
    /\ Did(w, <<Event("progress", 10)>>)
    /\ Goto(w, "urlopen")
    /\ UNCHANGED <<host, fs, force_reinstall, response, dl, success, audio, dialog>>

\* with urllib.request.urlopen(LIB_URL) as response, open(zip_path, 'wb') as out_file
dae_urlopen(w) ==
    /\ wpc[w] = "urlopen"
    /\ \/ /\ Goto(w, "except")
          /\ UNCHANGED <<fs, response, dl, events>>
       \/ \E r \in servers :
             /\ response' = [response EXCEPT ![w] = r]
             /\ dl' = [dl EXCEPT ![w] = 0]
             /\ fs' = (zip_path :> File("archive")) @@ fs
             /\ Did(w, <<Event("open", 0)>>)
             /\ Goto(w, IF r.length # 0 THEN "read" ELSE "read_all")
    /\ UNCHANGED <<host, ui, force_reinstall, success, audio, dialog>>

\* data = response.read(8192): a block is written and its percentage queued;
\* no data ends the loop; the connection may break; a server that sends
\* nothing more leaves the thread in read(), which has no timeout
dae_read(w) ==
    /\ wpc[w] = "read"
    /\ IF ReadLen(response[w], dl[w]) > 0
       THEN /\ dl' = [dl EXCEPT ![w] = @ + ReadLen(response[w], dl[w])]
            /\ ui' = CallAfter(ui, Progress(w, Percent(dl'[w], response[w].length)))
            /\ Did(w, <<Event("write", ReadLen(response[w], dl[w])),
                        Event("progress", Percent(dl'[w], response[w].length))>>)
            /\ UNCHANGED wpc
       ELSE /\ dl[w] = response[w].length \/ response[w].fate \in {"eof", "reset"}
            /\ Goto(w, IF dl[w] = response[w].length \/ response[w].fate = "eof"
                       THEN "extracting" ELSE "except")
            /\ UNCHANGED <<dl, ui, events>>
    /\ UNCHANGED <<host, fs, force_reinstall, response, success, audio, dialog>>

\* out_file.write(response.read()) when no length is declared
dae_read_all(w) ==
    /\ wpc[w] = "read_all"
    /\ response[w].fate \in {"eof", "reset"}
    /\ IF response[w].fate = "eof"
       THEN /\ dl' = [dl EXCEPT ![w] = response[w].body]
            /\ Did(w, <<Event("write", response[w].body)>>)
            /\ Goto(w, "extracting")
       ELSE /\ Goto(w, "except")
            /\ UNCHANGED <<dl, events>>
    /\ UNCHANGED <<host, fs, ui, force_reinstall, response, success, audio, dialog>>

\* wx.CallAfter(progress_callback, 80, "Extracting libraries...")
dae_extracting(w) ==
    /\ wpc[w] = "extracting"
    /\ ui' = CallAfter(ui, Progress(w, 80))
    /\ Did(w, <<Event("progress", 80)>>)
    /\ Goto(w, "extract")
    /\ UNCHANGED <<host, fs, force_reinstall, response, dl, success, audio, dialog>>

\* what extractall leaves at globalPlugins/lib
Extracted(f, complete) ==
    (LIB_DIR :> IF exists(f, LIB_DIR) THEN Dir(f[LIB_DIR].locked, "mixed")
                ELSE Dir(FALSE, IF complete THEN "installed" ELSE "partial")) @@ f

\* with zipfile.ZipFile(zip_path, 'r') as zip_ref: zip_ref.extractall(...):
\* a bad archive raises before anything is extracted, an interrupted
\* extraction after part of it
dae_extract(w) ==
    /\ wpc[w] = "extract"
    /\ IF exists(fs, zip_path) /\ ValidArchive(response[w], dl[w])
       THEN \E complete \in BOOLEAN :
               /\ fs' = Extracted(fs, complete)
               /\ Did(w, <<Event("extract", IF exists(fs, LIB_DIR) THEN 1 ELSE 0)>>)
               /\ Goto(w, IF complete THEN "complete" ELSE "except")
       ELSE /\ Goto(w, "except")
            /\ UNCHANGED <<fs, events>>
    /\ UNCHANGED <<host, ui, force_reinstall, response, dl, success, audio, dialog>>

\* wx.CallAfter(progress_callback, 100, "Extraction complete.")
dae_complete(w) ==
    /\ wpc[w] = "complete"
    /\ ui' = CallAfter(ui, Progress(w, 100))
    /\ Did(w, <<Event("progress", 100)>>)
    /\ Goto(w, "remove")
    /\ UNCHANGED <<host, fs, force_reinstall, response, dl, success, audio, dialog>>

\* return <value> of download_and_extract
Returns(w, value) ==
    /\ success' = [success EXCEPT ![w] = value]
    /\ Goto(w, "returned")

\* if os.path.exists(zip_path): os.remove(zip_path); return True.  os.remove
\* raises when the file is held open elsewhere.
dae_remove(w) ==
    /\ wpc[w] = "remove"
    /\ IF exists(fs, zip_path)
       THEN \E removed \in BOOLEAN :
               IF removed
               THEN /\ fs' = Unlink(fs, zip_path)
                    /\ Did(w, <<Event("remove", 1), Event("return", 1)>>)
                    /\ Returns(w, TRUE)
               ELSE /\ Did(w, <<Event("remove", 0)>>)
                    /\ Goto(w, "except")
                    /\ UNCHANGED <<fs, success>>
       ELSE /\ Did(w, <<Event("return", 1)>>)
            /\ Returns(w, TRUE)
            /\ UNCHANGED fs
    /\ UNCHANGED <<host, ui, force_reinstall, response, dl, audio, dialog>>

\* except Exception as e: log.error(...); wx.CallAfter(gui.messageBox, ...)
dae_except(w) ==
    /\ wpc[w] = "except"
    /\ ui' = CallAfter(ui, [fn |-> "messageBox", w |-> w])
    /\ Did(w, <<Event("messageBox", 0)>>)
    /\ Goto(w, "cleanup")
    /\ UNCHANGED <<host, fs, force_reinstall, response, dl, success, audio, dialog>>

\* in the handler: if os.path.exists(zip_path): os.remove(zip_path); return
\* False.  An exception of this os.remove leaves download_and_extract.
dae_cleanup(w) ==
    /\ wpc[w] = "cleanup"
    /\ IF exists(fs, zip_path)
       THEN \E removed \in BOOLEAN :
               IF removed
               THEN /\ fs' = Unlink(fs, zip_path)
                    /\ Did(w, <<Event("remove", 1), Event("return", 0)>>)
                    /\ Returns(w, FALSE)
               ELSE /\ Did(w, <<Event("remove", 0), Event("raise", 0)>>)
                    /\ Goto(w, "raised")
                    /\ UNCHANGED <<fs, success>>
       ELSE /\ Did(w, <<Event("return", 0)>>)
            /\ Returns(w, FALSE)
            /\ UNCHANGED fs
    /\ UNCHANGED <<host, ui, force_reinstall, response, dl, audio, dialog>>

\* success = download_and_extract(...); wx.CallAfter(final_message)
do_work_final(w) ==
    /\ wpc[w] = "returned"
    /\ ui' = CallAfter(ui, [fn |-> "final_message", w |-> w, success |-> success[w]])
    /\ Did(w, <<Event("final_message", IF success[w] THEN 1 ELSE 0)>>)
    /\ Goto(w, "finished")
    /\ UNCHANGED <<host, fs, force_reinstall, response, dl, success, audio, dialog>>

Worker(w) ==
    \/ do_work(w)
    \/ dae_start(w)
    \/ dae_urlopen(w)
    \/ dae_read(w)
    \/ dae_read_all(w)
    \/ dae_extracting(w)
    \/ dae_extract(w)
    \/ dae_complete(w)
    \/ dae_remove(w)
    \/ dae_except(w)
    \/ dae_cleanup(w)
    \/ do_work_final(w)

\* The responses of the download server: the declared Content-Length (0 when
\* none), the bytes it really sends, whether they are a complete valid
\* archive, and what follows them: the end of the stream, a broken
\* connection or silence.
Response(length, body, valid, fate) ==
    [length |-> length, body |-> body, valid |-> valid, fate |-> fate]

ServerSmall == Response(1000, 1000, TRUE, "eof")

ServerBlocks == Response(20000, 20000, TRUE, "eof")

ServerNoLength == Response(0, 1000, TRUE, "eof")

ServerCorrupt == Response(1000, 1000, FALSE, "eof")

ServerShort == Response(20000, 8192, TRUE, "eof")

ServerReset == Response(20000, 8192, TRUE, "reset")

ServerStall == Response(20000, 8192, TRUE, "stall")

ServerNoLengthStall == Response(0, 1000, TRUE, "stall")

\* 70 blocks of 8192 bytes
ServerSeventyBlocks == Response(573440, 573440, TRUE, "eof")

\* The add-on's directories a process may find: lib, the package's own lib,
\* a trash directory of an earlier update and an archive an earlier process left.
OldTrash == TrashPath(LIB_DIR, 0)

DirStates == {Dir(FALSE, "installed"), Dir(TRUE, "installed")}

Disks(paths) == UNION {[D -> DirStates] : D \in SUBSET paths}

WithStaleZip(f) == (zip_path :> File("archive")) @@ f

----------------------------------------------------------------------------
\* One run of do_work on its own.

DownloadServers ==
    {ServerSmall, ServerBlocks, ServerNoLength, ServerCorrupt, ServerShort, ServerReset,
     ServerStall, ServerNoLengthStall, ServerSeventyBlocks}

HostIdle ==
    /\ import_ok = TRUE
    /\ ipc = "running"
    /\ lib_dir = LIB_DIR
    /\ LIBS_AVAILABLE = FALSE
    /\ clock = 1
    /\ ui = <<>>
    /\ entries = <<>>
    /\ swept = {}
    /\ cleanups = 1
    /\ retired = {}

\* run_installation has started the threads of `started`.
ThreadsStarted(started) ==
    /\ wpc = [w \in Workers |-> IF w \in started THEN "do_work" ELSE "off"]
    /\ force_reinstall \in [Workers -> BOOLEAN]
    /\ \A w \in Workers \ started : ~force_reinstall[w]
    /\ response = [w \in Workers |-> NoResponse]
    /\ dl = [w \in Workers |-> 0]
    /\ success = [w \in Workers |-> FALSE]
    /\ events = [w \in Workers |-> <<>>]

DownloadInit ==
    /\ AudioOff
    /\ DialogOff
    /\ HostIdle
    /\ ThreadsStarted({1})
    /\ servers = DownloadServers
    /\ fs \in Disks({LIB_DIR}) \cup {WithStaleZip(f) : f \in Disks({LIB_DIR})}

\* the threads, and the UI thread running the callbacks they queue
DownloadNext ==
    \/ \E w \in Workers : Worker(w)
    \/ ShowCallback
    \/ final_message

DownloadSpec == DownloadInit /\ [][DownloadNext]_vars

\* A thread that can take a step takes one.
DownloadLive == DownloadSpec /\ \A w \in Workers : WF_vars(Worker(w))

----------------------------------------------------------------------------
\* Two runs of do_work at once: check_and_install_dependencies was called
\* twice and both confirmations were answered with OK.

OverlapInit ==
    /\ AudioOff
    /\ DialogOff
    /\ HostIdle
    /\ ThreadsStarted({1, 2})
    /\ force_reinstall[1] = force_reinstall[2]
    /\ servers = {ServerSmall, ServerNoLength}
    /\ fs = NoEntries

\* the two threads alone
OverlapNext == \E w \in Workers : Worker(w)

OverlapSpec == OverlapInit /\ [][OverlapNext]_vars

----------------------------------------------------------------------------
\* The processes, one after each restart: module initialisation, the entry
\* points of the installer up to the start of a do_work thread, and the
\* settings panel.

InstallServers == {ServerSmall, ServerCorrupt}

InstallInit ==
    /\ AudioOff
    /\ DialogOff
    /\ WorkersOff
    /\ import_ok \in BOOLEAN
    /\ ipc = "boot"
    /\ lib_dir = LIB_DIR
    /\ LIBS_AVAILABLE = FALSE
    /\ fs \in Disks({LIB_DIR, PkgLib, OldTrash})
    /\ clock = 1
    /\ ui = <<>>
    /\ entries \in {<<>>, <<"reinstall_dependencies">>}
    /\ swept = {}
    /\ cleanups = 0
    /\ retired = {}
    /\ servers = InstallServers

InstallNext ==
    \/ ImportUpdater
    \/ initialize
    \/ CheckDir
    \/ run_check
    \/ reinstall_dependencies
    \/ confirm_action
    \/ onReinstall
    \/ Restart

InstallSpec == InstallInit /\ [][InstallNext]_vars

----------------------------------------------------------------------------
\* NativeSpeechDialog: the Generate button, the _generate_thread threads it
\* starts, and the callbacks they post to the UI thread. The call of
\* _stream_and_save_audio is one step here; its own steps are those of Spec.

\* Bound of the model: presses of the Generate button.
MaxClicks == 2

\* What _stream_and_save_audio returns: the merged file, the first segment, or None.
StreamResults == {out_all, SegmentPath(0, <<".","w","a","v">>), None}

\* A posted call fn(arg).
Posting(fn, arg) == [fn |-> fn, arg |-> arg]

\* Whether a call on a widget of the dialog goes through: always while the
\* dialog is open; after Destroy() the window is deleted at the next idle
\* time, and from then on the call raises RuntimeError.
WidgetAnswers == IF destroyed THEN BOOLEAN ELSE {TRUE}

\* Mutant: the is_generating test at the top of on_generate is missing.
on_generate_noGuard ==
    /\ ~destroyed
    /\ clicks < MaxClicks
    /\ clicks' = clicks + 1
    /\ \E ready \in BOOLEAN :
          IF ~ready
          THEN /\ posted' = CallAfter(posted, Posting("MessageBox", None))
               /\ UNCHANGED <<is_generating, generate_btn, play_btn, save_btn, gthreads>>
          ELSE /\ is_generating' = TRUE
               /\ generate_btn' = "Generating..."
               /\ play_btn' = FALSE
               /\ save_btn' = FALSE
               /\ gthreads' = Append(gthreads, [pc |-> "client", saved_path |-> None])
               /\ UNCHANGED posted
    /\ UNCHANGED <<destroyed, last_audio_path, opened>>
    /\ UNCHANGED <<audio, installer>>

\* on_generate: ready stands for GENAI_AVAILABLE, an API key and a text.
on_generate ==
    /\ ~destroyed
    /\ clicks < MaxClicks
    /\ clicks' = clicks + 1
    /\ \E ready \in BOOLEAN :
          IF is_generating
          THEN UNCHANGED <<is_generating, generate_btn, play_btn, save_btn, gthreads, posted>>
          ELSE IF ~ready
          THEN /\ posted' = CallAfter(posted, Posting("MessageBox", None))
               /\ UNCHANGED <<is_generating, generate_btn, play_btn, save_btn, gthreads>>
          ELSE /\ is_generating' = TRUE
               /\ generate_btn' = "Generating..."
               /\ play_btn' = FALSE
               /\ save_btn' = FALSE
               /\ gthreads' = Append(gthreads, [pc |-> "client", saved_path |-> None])
               /\ UNCHANGED posted
    /\ UNCHANGED <<destroyed, last_audio_path, opened>>
    /\ UNCHANGED <<audio, installer>>

\* on_settings: self.Destroy() and the settings dialog, is_closed untouched
on_settings ==
    /\ ~destroyed
    /\ destroyed' = TRUE
    /\ posted' = CallAfter(posted, Posting("_popupSettingsDialog", None))
    /\ UNCHANGED <<is_generating, generate_btn, play_btn, save_btn, last_audio_path, opened,
                   gthreads, clicks>>
    /\ UNCHANGED <<audio, installer>>

\* Thread t goes on at position to.
ThreadGoto(t, to) == gthreads' = [gthreads EXCEPT ![t].pc = to]

ui_state == <<is_generating, destroyed, generate_btn, play_btn, save_btn, last_audio_path, opened, clicks>>

\* self.client = genai.Client(api_key=...), and its except clause
gt_client(t) ==
    /\ gthreads[t].pc = "client"
    /\ \E raised \in BOOLEAN :
          IF raised
          THEN /\ ThreadGoto(t, "done")
               /\ posted' = IF is_closed THEN posted
                            ELSE CallAfter(CallAfter(posted, Posting("MessageBox", None)), Posting("_restore_generate_button", None))
          ELSE /\ ThreadGoto(t, "config")
               /\ UNCHANGED posted
    /\ UNCHANGED ui_state
    /\ UNCHANGED <<audio, installer>>

\* the request is built from the dialog's widgets (lines 675-699), then
\* "if self.is_closed: return"
gt_config(t) ==
    /\ gthreads[t].pc = "config"
    /\ \E raised \in BOOLEAN :
          ThreadGoto(t, IF raised THEN "except" ELSE IF is_closed THEN "finally" ELSE "stream")
    /\ UNCHANGED posted
    /\ UNCHANGED ui_state
    /\ UNCHANGED <<audio, installer>>

\* saved_path = self._stream_and_save_audio(...): it returns a path or None
gt_stream(t) ==
    /\ gthreads[t].pc = "stream"
    /\ \E p \in StreamResults :
          gthreads' = [gthreads EXCEPT ![t] = [pc |-> "after", saved_path |-> p]]
    /\ UNCHANGED posted
    /\ UNCHANGED ui_state
    /\ UNCHANGED <<audio, installer>>

\* if self.is_closed: return; wx.CallAfter(handle_success, saved_path)
gt_after(t) ==
    /\ gthreads[t].pc = "after"
    /\ ThreadGoto(t, "finally")
    /\ posted' = IF is_closed THEN posted ELSE CallAfter(posted, Posting("handle_success", gthreads[t].saved_path))
    /\ UNCHANGED ui_state
    /\ UNCHANGED <<audio, installer>>

\* except Exception: if self.is_closed: return; wx.CallAfter(wx.MessageBox, ...)
gt_except(t) ==
    /\ gthreads[t].pc = "except"
    /\ ThreadGoto(t, "finally")
    /\ posted' = IF is_closed THEN posted ELSE CallAfter(posted, Posting("MessageBox", None))
    /\ UNCHANGED ui_state
    /\ UNCHANGED <<audio, installer>>

\* Mutant: the finally clause does not post _restore_generate_button.
gt_finally_noRestore(t) ==
    /\ gthreads[t].pc = "finally"
    /\ ThreadGoto(t, "done")
    /\ UNCHANGED posted
    /\ UNCHANGED ui_state
    /\ UNCHANGED <<audio, installer>>

\* finally: if not self.is_closed: wx.CallAfter(self._restore_generate_button)
gt_finally(t) ==
    /\ gthreads[t].pc = "finally"
    /\ ThreadGoto(t, "done")
    /\ posted' = IF is_closed THEN posted ELSE CallAfter(posted, Posting("_restore_generate_button", None))
    /\ UNCHANGED ui_state
    /\ UNCHANGED <<audio, installer>>

\* The UI thread takes the oldest posted callback, if it is fn.
Takes(fn) == posted # <<>> /\ posted[1].fn = fn

\* handle_success(saved_path) on the UI thread; safe_startfile posts a box when
\* the file cannot be opened
handle_success ==
    /\ Takes("handle_success")
    /\ IF is_closed \/ posted[1].arg = None
       THEN /\ posted' = Tail(posted)
            /\ UNCHANGED <<last_audio_path, opened>>
       ELSE /\ last_audio_path' = posted[1].arg
            /\ opened' = Append(opened, posted[1].arg)
            /\ \E started \in BOOLEAN :
                  \E q \in {IF started THEN Tail(posted) ELSE CallAfter(Tail(posted), Posting("MessageBox", None))} :
                     posted' = CallAfter(CallAfter(q, Posting("play_btn.Enable", TRUE)), Posting("save_btn.Enable", TRUE))
    /\ UNCHANGED <<is_generating, destroyed, generate_btn, play_btn, save_btn, gthreads, clicks>>
    /\ UNCHANGED <<audio, installer>>

\* _restore_generate_button on the UI thread: SetLabel, then the flag
restore_generate_button ==
    /\ Takes("_restore_generate_button")
    /\ posted' = Tail(posted)
    /\ \E answers \in WidgetAnswers :
          IF answers
          THEN generate_btn' = "Generate Speech" /\ is_generating' = FALSE
          ELSE UNCHANGED <<generate_btn, is_generating>>
    /\ UNCHANGED <<destroyed, play_btn, save_btn, last_audio_path, opened, gthreads, clicks>>
    /\ UNCHANGED <<audio, installer>>

\* the deferred self.play_btn.Enable(True)
play_btn_Enable ==
    /\ Takes("play_btn.Enable")
    /\ posted' = Tail(posted)
    /\ \E answers \in WidgetAnswers : play_btn' = IF answers THEN posted[1].arg ELSE play_btn
    /\ UNCHANGED <<is_generating, destroyed, generate_btn, save_btn, last_audio_path, opened,
                   gthreads, clicks>>
    /\ UNCHANGED <<audio, installer>>

\* the deferred self.save_btn.Enable(True)
save_btn_Enable ==
    /\ Takes("save_btn.Enable")
    /\ posted' = Tail(posted)
    /\ \E answers \in WidgetAnswers : save_btn' = IF answers THEN posted[1].arg ELSE save_btn
    /\ UNCHANGED <<is_generating, destroyed, generate_btn, play_btn, last_audio_path, opened,
                   gthreads, clicks>>
    /\ UNCHANGED <<audio, installer>>

\* a posted wx.MessageBox or the settings dialog: shown and dismissed
ShowPosted ==
    /\ Takes("MessageBox") \/ Takes("_popupSettingsDialog")
    /\ posted' = Tail(posted)
    /\ UNCHANGED <<gthreads>>
    /\ UNCHANGED ui_state
    /\ UNCHANGED <<audio, installer>>

DialogInit ==
    /\ AudioOff
    /\ InstallerOff
    /\ DialogOff

\* One step of a generation thread.
GenerateThread ==
    \E t \in DOMAIN gthreads :
       \/ gt_client(t)
       \/ gt_config(t)
       \/ gt_stream(t)
       \/ gt_after(t)
       \/ gt_except(t)
       \/ gt_finally(t)

\* The UI thread runs the oldest posted callback.
RunPosted ==
    \/ handle_success
    \/ restore_generate_button
    \/ play_btn_Enable
    \/ save_btn_Enable
    \/ ShowPosted

DialogNext ==
    \/ on_generate
    \/ on_settings
    \/ on_close
    \/ GenerateThread
    \/ RunPosted

DialogSpec == DialogInit /\ [][DialogNext]_vars

\* Every started thread runs on and every call made returns or raises; the UI
\* thread's event loop runs what is posted to it.
DialogLive == DialogSpec /\ WF_vars(GenerateThread) /\ WF_vars(RunPosted)

----------------------------------------------------------------------------
\* The loop body of _stream_and_save_audio on its own: one chunk of any of the
\* content types below, arriving first or after one saved segment.

ChunkFlac ==
    [candidates |-> TRUE, parts |-> TRUE, inline_data |-> TRUE, mime_type |-> MimeFlac, data |-> <<102, 76>>]

ChunkOgg ==
    [candidates |-> TRUE, parts |-> TRUE, inline_data |-> TRUE, mime_type |-> MimeOgg, data |-> <<79, 103>>]

ChunkBasic ==
    [candidates |-> TRUE, parts |-> TRUE, inline_data |-> TRUE, mime_type |-> MimeBasic, data |-> <<46, 115>>]

ChunkL16Rate48k ==
    [candidates |-> TRUE, parts |-> TRUE, inline_data |-> TRUE, mime_type |-> MimeL16Rate48k, data |-> <<1, 2>>]

ChunkL65536 ==
    [candidates |-> TRUE, parts |-> TRUE, inline_data |-> TRUE, mime_type |-> <<"a","u","d","i","o","/","L","6","5","5","3","6">>, data |-> <<1, 2>>]

ChunkNoParts ==
    [candidates |-> TRUE, parts |-> FALSE, inline_data |-> FALSE, mime_type |-> NoMime, data |-> <<>>]

ChunkEmptyData ==
    [candidates |-> TRUE, parts |-> TRUE, inline_data |-> TRUE, mime_type |-> MimeL16, data |-> <<>>]

SegmentChunks ==
    Chunks \cup {ChunkFlac, ChunkOgg, ChunkBasic, ChunkL16Rate48k, ChunkL65536, ChunkNoParts, ChunkEmptyData}

\* The state at the top of the loop body with chunk c in hand, after the
\* chunks of earlier were saved on a disk that held d.
AtBody(earlier, c, d) ==
    /\ pc = "body"
    /\ is_closed = FALSE
    /\ stream = "open"
    /\ arrived = Append(earlier, c)
    /\ chunk = c
    /\ file_index = Len(earlier)
    /\ saved_paths = [i \in 1..Len(earlier) |-> ChunkFilename(earlier[i], i - 1)]
    /\ filename = IF earlier = <<>> THEN <<>> ELSE ChunkFilename(earlier[Len(earlier)], Len(earlier) - 1)
    /\ pending = IF earlier = <<>> THEN <<>> ELSE SegmentBytes(earlier[Len(earlier)])
    /\ disk = IF earlier = <<>> THEN d ELSE save_binary_file(ChunkFilename(earlier[1], 0), SegmentBytes(earlier[1]), d)
    /\ result = None
    /\ outcome = ""
    /\ dialogs = <<>>
    /\ requests = 1
    /\ written = saved_paths
    /\ merges = <<>>

SegmentInit ==
    /\ \E earlier \in {<<>>, <<ChunkPcmA>>, <<ChunkMp3>>}, c \in SegmentChunks, d \in {NoFiles, StaleDisk} :
          AtBody(earlier, c, d)
    /\ InstallerOff
    /\ DialogOff

SegmentNext ==
    \/ BodySkip
    \/ BodyPrepare
    \/ Save
    \/ SaveRaise
    \/ Except

SegmentSpec == SegmentInit /\ [][SegmentNext]_vars

----------------------------------------------------------------------------
\* parse_audio_mime_type and convert_to_wav called on their own, over content
\* types built from a type token and a rate parameter in either order.

\* type tokens with the bit depth the form audio/L<bits> declares
TypeCases ==
    {<<<<"a","u","d","i","o","/","L","1","6">>, 16>>, <<<<"a","u","d","i","o","/","l","2","4">>, 24>>, <<<<"A","U","D","I","O","/","L","2","4">>, 24>>, <<<<"a","u","d","i","o","/","L","8">>, 8>>}

\* type tokens whose bit depth is missing, not a number or out of range
TypeOdd ==
    {<<"a","u","d","i","o","/","L","x","x">>, <<"a","u","d","i","o","/","L">>, <<"a","u","d","i","o","/","p","c","m">>, <<"a","u","d","i","o","/","L","1","2">>, <<"a","u","d","i","o","/","L","6","5","5","3","6">>}

\* rate parameters with the rate they declare
RateCases ==
    {<<<<"r","a","t","e","=","4","8","0","0","0">>, 48000>>, <<<<"R","a","t","e","=","4","8","0","0","0">>, 48000>>, <<<<"R","A","T","E","=","8","0","0","0">>, 8000>>, <<<<" ","r","a","t","e","=","1","6","0","0","0"," ">>, 16000>>}

\* rate parameters whose value is missing, not a number or out of range
RateOdd ==
    {<<"r","a","t","e","=","a","b","c">>, <<"r","a","t","e","=">>, <<"r","a","t","e","=","0">>, <<"r","a","t","e","=","-","1">>, <<"r","a","t","e","=","2","4","k">>}

TypeTokens == {t[1] : t \in TypeCases} \cup TypeOdd

RateParams == {r[1] : r \in RateCases} \cup RateOdd

JoinParams(a, b) == a \o <<";">> \o b

ContentTypes ==
    {<<>>, <<"a","u","d","i","o","/","x","-","w","a","v">>, <<"A","U","D","I","O","/","X","-","W","A","V",";","r","a","t","e","=","8","0","0","0">>}
        \cup TypeTokens
        \cup {JoinParams(t, r) : t \in TypeTokens, r \in RateParams}
        \cup {JoinParams(r, t) : t \in TypeTokens, r \in RateParams}

PcmBuffers == {<<>>, <<1, 2>>, <<1, 2, 3, 4>>}

\* chunk holds the arguments: mime_type and data.
ConvertInit ==
    /\ pc = "parse_call"
    /\ chunk \in {[candidates |-> TRUE, parts |-> TRUE, inline_data |-> TRUE, mime_type |-> m, data |-> d] :
                     m \in ContentTypes, d \in PcmBuffers}
    /\ is_closed = FALSE
    /\ stream = "none"
    /\ arrived = <<>>
    /\ file_index = 0
    /\ saved_paths = <<>>
    /\ filename = <<>>
    /\ pending = <<>>
    /\ disk = NoFiles
    /\ result = None
    /\ outcome = ""
    /\ dialogs = <<>>
    /\ requests = 0
    /\ written = <<>>
    /\ merges = <<>>
    /\ InstallerOff
    /\ DialogOff

\* result = parse_audio_mime_type(mime_type)
ParseCall ==
    /\ pc = "parse_call"
    /\ result' = parse_audio_mime_type(chunk.mime_type)
    /\ pc' = "convert_call"
    /\ UNCHANGED <<is_closed, stream, arrived, locals, file_index, saved_paths, disk, outcome,
                   dialogs, requests, written, merges>>
    /\ UNCHANGED <<installer, dialog>>

\* pending = convert_to_wav(audio_data, mime_type), or struct.error leaves it
ConvertCall ==
    /\ pc = "convert_call"
    /\ \E c \in {convert_to_wav(chunk.data, chunk.mime_type)} :
          /\ pending' = c.bytes
          /\ outcome' = IF c.ok THEN "converted" ELSE "struct.error"
    /\ pc' = "convert_done"
    /\ UNCHANGED <<is_closed, stream, arrived, chunk, filename, file_index, saved_paths, disk,
                   result, dialogs, requests, written, merges>>
    /\ UNCHANGED <<installer, dialog>>

ConvertNext == ParseCall \/ ConvertCall

ConvertSpec == ConvertInit /\ [][ConvertNext]_vars

----------------------------------------------------------------------------
\* The installer's contracts.

\* the positions of thread w's events of one kind
At(w, op) == {i \in DOMAIN events[w] : events[w][i].op = op}

\* C11: a forced reinstall never deletes the installed lib directory in place
\* (it renames it to a trash sibling and deletes only the renamed copy), and
\* never extracts a new bundle over a directory it could not retire.
C11_NeverDeletedInPlace ==
    \A w \in Workers :
        force_reinstall[w]
        => /\ At(w, "rmtree") = {}
           /\ \A i \in At(w, "extract") : events[w][i].arg = 0

\* C13: in every process, once module initialisation has looked for the lib
\* directory, and whenever an install thread has been started, the trash
\* collection has run exactly once.
C13_SweepBeforeCheck ==
    (ipc \in {"running", "restarting"} \/ \E w \in Workers : wpc[w] # "off") => cleanups = 1

\* the steps between open(zip_path, 'wb') and os.remove(zip_path)
ArchiveInUse == {"read", "read_all", "extracting", "extract", "complete", "remove"}

\* C14: two overlapping runs of download_and_extract never write, extract
\* from or delete the same archive file: every thread's archive is the one
\* file zip_path, so no two threads are between its open and its removal.
C14_ArchivesNotShared ==
    \A v, w \in Workers : (wpc[v] \in ArchiveInUse /\ wpc[w] \in ArchiveInUse) => v = w

\* the calls of the progress callback thread w has queued, in order
ProgressCalls(w) == SelectSeq(events[w], LAMBDA e : e.op = "progress")

Last(s) == s[Len(s)]

\* 10 + floor(70 * bytes / total)
Floor70(n, total_length) == 10 + (70 * n) \div total_length

\* The progress contract of one install attempt, for a given value of the
\* download percentage: the values lie in [0,100] and never decrease; the
\* first is at least 10; while the body is downloaded they are at most 80,
\* the value after a block is pct(bytes so far, declared length), and with
\* no declared length there is no value between the first and 80; 80 is
\* reported when extraction starts and 100 is the last value of a
\* successful attempt.
ProgressContract(w, pct(_, _)) ==
    \A calls \in {ProgressCalls(w)} :
        /\ \A i \in DOMAIN calls : calls[i].arg \in 0..100
        /\ \A i \in 1..(Len(calls) - 1) : calls[i].arg <= calls[i + 1].arg
        /\ wpc[w] \notin {"off", "do_work", "start"} => calls # <<>> /\ calls[1].arg >= 10
        /\ wpc[w] \in {"urlopen", "read", "read_all"} => \A i \in DOMAIN calls : calls[i].arg <= 80
        /\ (wpc[w] = "read" /\ dl[w] > 0) => Last(calls).arg = pct(dl[w], response[w].length)
        /\ wpc[w] = "read_all" => Len(calls) = 1
        /\ (wpc[w] = "extract" /\ response[w].length = 0) => Len(calls) = 2
        /\ wpc[w] = "extract" => Last(calls).arg = 80
        /\ (wpc[w] \in {"returned", "finished"} /\ success[w]) => Last(calls).arg = 100

\* C15 as stated: the progress contract with the download percentage
\* 10 + floor(70 * bytes / total).
C15_ProgressFloor == \A w \in Workers : ProgressContract(w, Floor70)

\* C15, amended: the progress contract with the download percentage
\* 10 + int(bytes / total * 70) computed in double precision, which is
\* 10 + floor(70 * bytes / total) except that it is one less when
\* bytes / total is exactly 47/70.
C15_ProgressDouble == \A w \in Workers : ProgressContract(w, Percent)

\* C15 witness: a successful download of 70 blocks of 8192 bytes; after the
\* 47th block 56 was reported, where the floor is 57, and the last value is 100.
C15_Witness ==
    /\ wpc[1] = "finished" /\ success[1]
    /\ response[1] = ServerSeventyBlocks
    /\ \E calls \in {ProgressCalls(1)} :
          /\ Len(calls) = 73
          /\ calls[48].arg = 56
          /\ Floor70(47 * ReadSize, response[1].length) = 57
          /\ calls[72].arg = 80
          /\ calls[73].arg = 100

\* download_and_extract is over: it returned a result or an exception left it
Finished == {"returned", "raised", "finished"}

\* C16: whenever download_and_extract has finished, with success or with any
\* failure, the archive lib.zip does not exist.
C16_NoArchiveLeft ==
    \A w \in Workers : wpc[w] \in Finished => ~exists(fs, zip_path)

\* C17: in a failing run the archive it wrote is deleted before the error
\* is reported: once the error dialog has been scheduled, lib.zip is gone.
C17_RemovedBeforeReport ==
    \A w \in Workers :
        (At(w, "open") # {} /\ At(w, "messageBox") # {}) => ~exists(fs, zip_path)

\* C18: no exception leaves download_and_extract: a run that has handled a
\* failure returns False, and its final_message is scheduled.
C18_FailureIsReturned ==
    \A w \in Workers : At(w, "messageBox") # {} => At(w, "raise") = {}

\* C19: every run of download_and_extract comes to an end, whatever the
\* server does: the started thread eventually leaves the function.
C19_EventuallyReturns == <>(wpc[1] \in Finished)

\* C20: a trash directory the replacement step created is a sibling of lib
\* in globalPlugins whose name matches lib_trash_*; once the next process has
\* started, the sweep has tried to delete it, and it exists only if its
\* files are still locked.
C20_TrashSweptAtStartup ==
    ipc = "running"
    => \A path \in retired :
          /\ path[1] = gp_base /\ fnmatch_trash(path[2])
          /\ exists(fs, path) => (path \in swept /\ fs[path].locked)

\* C30: within one install attempt the progress value 100 is delivered only
\* if download_and_extract returns True: a thread that has reported 100
\* schedules no error dialog and does not end in failure.
C30_CompleteMeansSuccess ==
    \A w \in Workers :
        (\E i \in At(w, "progress") : events[w][i].arg = 100)
        => /\ At(w, "messageBox") = {}
           /\ At(w, "raise") = {}
           /\ \A i \in At(w, "return") : events[w][i].arg = 1

----------------------------------------------------------------------------
\* The contracts of the content-type parsing and of the container synthesis.

Defaults == [bits_per_sample |-> 16, rate |-> 24000]

\* rate parameters whose value is not a number
MalformedRates == {<<"r","a","t","e","=","a","b","c">>, <<"r","a","t","e","=">>, <<"r","a","t","e","=","2","4","k">>}

\* type tokens whose L is followed by no number
MalformedTypes == {<<"a","u","d","i","o","/","L","x","x">>, <<"a","u","d","i","o","/","L">>}

\* the content types built from the type token t and the rate parameter r
Both(t, r) == {JoinParams(t, r), JoinParams(r, t)}

\* C21: parse_audio_mime_type returns rate 24000 for every content type
\* without a rate= parameter and the defaults (16 bits, 24000 Hz) for the
\* empty one; a rate= or L<bits> value that is not a number leaves its
\* default in place, and every call returns a descriptor.
C21_DefaultsKept ==
    pc \in {"convert_call", "convert_done"}
    => /\ DOMAIN result = {"bits_per_sample", "rate"}
       /\ ~contains(lower(chunk.mime_type), <<"r","a","t","e","=">>) => result.rate = 24000
       /\ chunk.mime_type = <<>> => result = Defaults
       /\ \A t \in TypeTokens, r \in MalformedRates :
             chunk.mime_type \in Both(t, r) => result.rate = 24000
       /\ \A t \in MalformedTypes, r \in RateParams :
             chunk.mime_type \in Both(t, r) \cup {t} => result.bits_per_sample = 16

\* C21 witness: a declared bit depth next to a rate that is not a number:
\* the depth is taken and the rate is the default.
C21_Witness ==
    /\ pc = "convert_done"
    /\ chunk.mime_type = JoinParams(<<"a","u","d","i","o","/","L","8">>, <<"r","a","t","e","=","a","b","c">>)
    /\ result = [bits_per_sample |-> 8, rate |-> 24000]

\* C22: for a content type of the form audio/L<bits>;rate=<hz>, in every
\* letter case of the type token and of the rate key and in either order of
\* the two parameters, the result is bits_per_sample = <bits>, rate = <hz>.
C22_AnyCaseAnyOrder ==
    pc \in {"convert_call", "convert_done"}
    => \A t \in TypeCases, r \in RateCases :
          chunk.mime_type \in Both(t[1], r[1])
          => result = [bits_per_sample |-> t[2], rate |-> r[2]]

\* C23: whatever the content type of a payload chunk, convert_to_wav returns
\* a container and does not raise.
C23_ConvertNeverRaises ==
    pc = "convert_done" => outcome = "converted"

\* C24: for a buffer of N bytes and a content type without "wav",
\* convert_to_wav returns N+44 bytes: a 44-byte header whose chunk-size field
\* at offset 4 is N+36 and whose data-length field is N, then the N bytes.
C24_HeaderPlusData ==
    (pc = "convert_done" /\ ~contains(lower(chunk.mime_type), <<"w","a","v">>))
    => /\ outcome = "converted"
       /\ Len(pending) = Len(chunk.data) + 44
       /\ SubSeq(pending, 45, Len(pending)) = chunk.data
       /\ ReadU32(pending, 4) = Len(chunk.data) + 36
       /\ ReadU32(pending, 40) = Len(chunk.data)

----------------------------------------------------------------------------
\* The contract of the loop body of _stream_and_save_audio.

\* The directory entries of d other than path are those of e.
SameExcept(d, e, path) == DOMAIN d \ {path} = DOMAIN e \ {path} /\ \A q \in DOMAIN e \ {path} : d[q] = e[q]

\* C25: a step that persists the chunk in hand writes one file, named and
\* filled by the extension derived from the chunk's content type alone: a
\* chunk whose extension is .wav, .mp3, .ogg or .flac goes to <base>_<i><ext>
\* exactly as received, any other chunk goes to <base>_<i>.wav as
\* convert_to_wav(bytes, content type); a chunk with no payload leaves the
\* saved-segment list, the index and the files as they are.
C25_BytesByExtension ==
    [][/\ (pc = "save" /\ pc' = "iter")
          => \E ext \in {guess_extension(chunk.mime_type)} :
                \E path \in {SegmentPath(file_index, IF ext \in RecognizedExts THEN ext ELSE <<".","w","a","v">>)} :
                   /\ HasPayload(chunk)
                   /\ path \in DOMAIN disk'
                   /\ disk'[path] = IF ext \in RecognizedExts THEN chunk.data ELSE convert_to_wav(chunk.data, chunk.mime_type).bytes
                   /\ SameExcept(disk', disk, path)
                   /\ saved_paths' = Append(saved_paths, path)
       /\ (pc = "body" /\ ~HasPayload(chunk))
          => /\ saved_paths' = saved_paths
             /\ file_index' = file_index
             /\ disk' = disk
             /\ written' = written
      ]_vars

\* C25 witness: a chunk of a type whose extension (.oga) is not one of the
\* four was saved second, as <base>_1.wav with a header before its two bytes.
C25_Witness ==
    /\ pc = "iter"
    /\ chunk = ChunkOgg
    /\ file_index = 2
    /\ Len(saved_paths) = 2
    /\ saved_paths[2] = SegmentPath(1, <<".","w","a","v">>)
    /\ Len(disk[saved_paths[2]]) = 46
    /\ SubSeq(disk[saved_paths[2]], 45, 46) = chunk.data

----------------------------------------------------------------------------
\* The contracts of the speech dialog.

\* The threads still at work: not yet past their last statement.
AtWork == {t \in DOMAIN gthreads : gthreads[t].pc # "done"}

\* C26: at most one generation thread is at work at any time: a thread at
\* work is the last one started and is_generating is true for as long as it
\* works; a step that starts a thread finds is_generating false and leaves it
\* true; is_generating falls only when no thread is at work.
C26_OneWorker ==
    /\ [](/\ Cardinality(AtWork) <= 1
          /\ \A t \in AtWork : is_generating /\ t = Len(gthreads))
    /\ [][/\ Len(gthreads') > Len(gthreads) => (~is_generating /\ is_generating')
          /\ (is_generating /\ ~is_generating') => AtWork = {}]_vars

\* C26 witness: a second thread is at work after the first one finished and
\* its callback reset the flag.
C26_Witness ==
    /\ Len(gthreads) = 2
    /\ gthreads[1].pc = "done"
    /\ gthreads[2].pc = "stream"
    /\ is_generating

\* C27: once the dialog has been destroyed, by on_close or by on_settings,
\* no step sets last_audio_path and no step opens a generated file.
C27_NoUpdateAfterDestroy ==
    [][destroyed => UNCHANGED <<last_audio_path, opened>>]_vars

\* C28: while is_generating is true the Play and Save buttons are disabled.
C28_LockedWhileGenerating == is_generating => ~play_btn /\ ~save_btn

\* C29: on a dialog that is not destroyed, every generation in progress is
\* followed by is_generating false with the Generate button's label restored.
C29_EventuallyRestored ==
    is_generating ~> ((~is_generating /\ generate_btn = "Generate Speech") \/ destroyed)

\* C29 witness: a thread has finished on an open dialog and the button is back.
C29_Witness ==
    /\ ~destroyed
    /\ gthreads # <<>>
    /\ gthreads[Len(gthreads)].pc = "done"
    /\ ~is_generating
    /\ generate_btn = "Generate Speech"

====
